---------------------------- MODULE Spec2Model ----------------------------
(***************************************************************************)
(* Model of the company-intelligence pipeline of src/company_intel.py and   *)
(* src/scraper.py: the time-expiring file cache, the rule-based link        *)
(* filter, the page harvester, the summarization call and the HTML / PDF    *)
(* entry points.                                                            *)
(*                                                                          *)
(* URLs, markup and cache identities are real strings: substring tests,     *)
(* lower-casing and prefix tests are computed on them as the Python code    *)
(* computes them.                                                           *)
(***************************************************************************)
EXTENDS Integers, Sequences, FiniteSets, TLC

(***************************************************************************)
(* String helpers (Python str semantics used by the source).                *)
(***************************************************************************)

\* Python `sub in s`
Contains(s, sub) ==
    \E i \in 1..(Len(s) - Len(sub) + 1) : SubSeq(s, i, i + Len(sub) - 1) = sub

\* Python s.startswith(prefix)
StartsWith(s, prefix) ==
    /\ Len(s) >= Len(prefix)
    /\ SubSeq(s, 1, Len(prefix)) = prefix

UpperToLower ==
    [c \in {"A","B","C","D","E","F","G","H","I","J","K","L","M","N","O","P","Q",
            "R","S","T","U","V","W","X","Y","Z"} |->
       CASE c = "A" -> "a" [] c = "B" -> "b" [] c = "C" -> "c" [] c = "D" -> "d"
         [] c = "E" -> "e" [] c = "F" -> "f" [] c = "G" -> "g" [] c = "H" -> "h"
         [] c = "I" -> "i" [] c = "J" -> "j" [] c = "K" -> "k" [] c = "L" -> "l"
         [] c = "M" -> "m" [] c = "N" -> "n" [] c = "O" -> "o" [] c = "P" -> "p"
         [] c = "Q" -> "q" [] c = "R" -> "r" [] c = "S" -> "s" [] c = "T" -> "t"
         [] c = "U" -> "u" [] c = "V" -> "v" [] c = "W" -> "w" [] c = "X" -> "x"
         [] c = "Y" -> "y" [] c = "Z" -> "z"]

RECURSIVE LowerFrom(_, _)
LowerFrom(s, i) ==
    IF i > Len(s) THEN ""
    ELSE LET c == SubSeq(s, i, i)
         IN  (IF c \in DOMAIN UpperToLower THEN UpperToLower[c] ELSE c)
               \o LowerFrom(s, i + 1)

\* Python s.lower()
Lower(s) == LowerFrom(s, 1)

RECURSIVE UpperFrom(_, _)
UpperFrom(s, i) ==
    IF i > Len(s) THEN ""
    ELSE LET c == SubSeq(s, i, i)
             up == { u \in DOMAIN UpperToLower : UpperToLower[u] = c }
         IN  (IF up # {} THEN CHOOSE u \in up : TRUE ELSE c) \o UpperFrom(s, i + 1)

\* Python s.upper()
Upper(s) == UpperFrom(s, 1)

(***************************************************************************)
(* Program constants.                                                       *)
(***************************************************************************)

CACHE_TTL == 86400

MAX_WORKERS == 5

\* "Stop after finding 5 relevant pages"
MAX_RELEVANT == 5

\* The ordered category table; each regex is '/' followed by one of the
\* listed alternatives.
RELEVANT_LINK_PATTERNS ==
    << [type |-> "about",
        alts |-> <<"about", "company", "who-we-are", "our-story", "mission", "vision">>],
       [type |-> "careers",
        alts |-> <<"careers", "jobs", "join-us", "work-with-us", "opportunities">>],
       [type |-> "products",
        alts |-> <<"products", "solutions", "services", "offerings", "platform">>],
       [type |-> "technology",
        alts |-> <<"technology", "tech-stack", "engineering", "innovation">>],
       [type |-> "news",
        alts |-> <<"news", "blog", "press", "media", "newsroom", "insights">>],
       [type |-> "team",
        alts |-> <<"team", "leadership", "management", "executives">>],
       [type |-> "customers",
        alts |-> <<"customers", "clients", "case-studies", "success-stories">>] >>

skip_patterns ==
    <<"login", "signup", "cart", "checkout", "privacy", "terms",
      "cookie", "legal", "#", "javascript:", "mailto:">>

(***************************************************************************)
(* Rule-based link filter (filter_relevant_links, the loop over all_links). *)
(***************************************************************************)

\* re.search(pattern, s) for a pattern '/(a1|a2|...)'
re_search(pattern, s) ==
    \E k \in 1..Len(pattern.alts) : Contains(s, "/" \o pattern.alts[k])

\* Mutant of IsSkipped: the deny-list stops before its pseudo-link entries.
IsSkipped_NoPseudoLinks(link_lower) ==
    \E k \in 1..8 : Contains(link_lower, skip_patterns[k])

\* any(skip in link_lower for skip in skip_patterns)
IsSkipped(link_lower) ==
    \E k \in 1..Len(skip_patterns) : Contains(link_lower, skip_patterns[k])

\* The URLs the model's pages can carry.
LinkPool ==
    { "https://example.com/about-us",
      "https://example.com/careers",
      "https://example.com/login",
      "https://example.com/#top",
      "https://example.com/about/careers",
      "https://example.com/Products",
      "https://example.com/technology",
      "https://example.com/newsroom",
      "https://example.com/team",
      "https://example.com/careers#openings" }

\* link.lower(), the deny-list test and the regex tests depend on the link
\* only: they are tabulated once over the model's URLs.
SkipTable == [l \in LinkPool |-> IsSkipped(Lower(l))]

MatchTable ==
    [l \in LinkPool |->
       [k \in 1..Len(RELEVANT_LINK_PATTERNS) |->
          re_search(RELEVANT_LINK_PATTERNS[k], Lower(l))]]

\* The inner "for link_type, pattern in RELEVANT_LINK_PATTERNS.items()" from
\* table position k on.  The break sits inside "if link_type not in
\* seen_types": a pattern that matches an already seen type does not end the
\* scan.
RECURSIVE MatchLoop(_, _, _, _)
MatchLoop(link, k, relevant_links, seen_types) ==
    IF k > Len(RELEVANT_LINK_PATTERNS)
    THEN [links |-> relevant_links, seen |-> seen_types]
    ELSE LET p == RELEVANT_LINK_PATTERNS[k]
         IN  IF MatchTable[link][k] /\ p.type \notin seen_types
             THEN [links |-> Append(relevant_links,
                                    [type |-> p.type \o " page", url |-> link]),
                   seen  |-> seen_types \cup {p.type}]
             ELSE MatchLoop(link, k + 1, relevant_links, seen_types)

\* Mutant of FilterLoop: the "stop after 5 relevant pages" test is missing.
RECURSIVE FilterLoop_NoCap(_, _, _, _)
FilterLoop_NoCap(all_links, i, relevant_links, seen_types) ==
    IF i > Len(all_links)
    THEN relevant_links
    ELSE IF SkipTable[all_links[i]]
         THEN FilterLoop_NoCap(all_links, i + 1, relevant_links, seen_types)
         ELSE LET r == MatchLoop(all_links[i], 1, relevant_links, seen_types)
              IN  FilterLoop_NoCap(all_links, i + 1, r.links, r.seen)

\* The outer "for link in all_links" from position i on.
RECURSIVE FilterLoop(_, _, _, _)
FilterLoop(all_links, i, relevant_links, seen_types) ==
    IF i > Len(all_links)
    THEN relevant_links
    ELSE IF SkipTable[all_links[i]]
         THEN FilterLoop(all_links, i + 1, relevant_links, seen_types)
         ELSE LET r == MatchLoop(all_links[i], 1, relevant_links, seen_types)
              IN  IF Len(r.links) >= MAX_RELEVANT
                  THEN r.links
                  ELSE FilterLoop(all_links, i + 1, r.links, r.seen)

\* result = {"links": relevant_links}
FilterResult(all_links) == [links |-> FilterLoop(all_links, 1, <<>>, {})]

(***************************************************************************)
(* File cache (get_cache_key, get_from_cache, save_to_cache).  The store    *)
(* maps a key to the (timestamp, data) pair pickled in its file; a key      *)
(* outside the domain has no file.                                          *)
(***************************************************************************)

\* Python None
None == [kind |-> "none"]

\* Payloads: page text, a {"links": [...]} dict, a {'report', 'metadata'} dict.
TextPayload(text) == [kind |-> "text", text |-> text]

LinksPayload(result) == [kind |-> "links", links |-> result.links]

ReportPayload(report, md) == [kind |-> "report", report |-> report, metadata |-> md]

\* Python truthiness of what get_from_cache returned: None and the empty
\* string are false; a dict with a key in it is true.
Truthy(data) ==
    CASE data.kind = "none" -> FALSE
      [] data.kind = "text" -> data.text # ""
      [] OTHER -> TRUE

\* hashlib.md5(data.encode()).hexdigest(): the digest is kept symbolic, one
\* digest per identity string.
get_cache_key(data) == "md5(" \o data \o ")"

\* f"links_{url}", f"content_{url}" and f"report_{company_name}_{url}"
LinksIdentity(u) == "links_" \o u

ContentIdentity(u) == "content_" \o u

ReportIdentity(c, u) == "report_" \o c \o "_" \o u

LinksKey(u) == get_cache_key(LinksIdentity(u))

ContentKey(u) == get_cache_key(ContentIdentity(u))

ReportKey(c, u) == get_cache_key(ReportIdentity(c, u))

\* os.remove(cache_file)
RemoveEntry(store, key) == [k \in (DOMAIN store) \ {key} |-> store[k]]

\* Mutant of get_from_cache: the validity test is <= instead of <.
get_from_cache_Inclusive(store, cache_key, t) ==
    IF cache_key \in DOMAIN store
    THEN IF t - store[cache_key].timestamp <= CACHE_TTL
         THEN [data |-> store[cache_key].data, store |-> store]
         ELSE [data |-> None, store |-> RemoveEntry(store, cache_key)]
    ELSE [data |-> None, store |-> store]

\* get_from_cache at clock t: what it returns and the store it leaves.
get_from_cache(store, cache_key, t) ==
    IF cache_key \in DOMAIN store
    THEN IF t - store[cache_key].timestamp < CACHE_TTL
         THEN [data |-> store[cache_key].data, store |-> store]
         ELSE [data |-> None, store |-> RemoveEntry(store, cache_key)]
    ELSE [data |-> None, store |-> store]

\* save_to_cache at clock t: pickle.dump((time.time(), data)) over the file.
save_to_cache(store, cache_key, data, t) ==
    [k \in (DOMAIN store) \cup {cache_key} |->
       IF k = cache_key THEN [timestamp |-> t, data |-> data] ELSE store[k]]

\* The record the model keeps of the latest get_from_cache call: whether the
\* file existed, its age and payload, what was returned and whether the file
\* is still there.
GetRecord(store, cache_key, t) ==
    LET g == get_from_cache(store, cache_key, t)
        had == cache_key \in DOMAIN store
    IN  [key      |-> cache_key,
         had      |-> had,
         age      |-> IF had THEN t - store[cache_key].timestamp ELSE 0,
         stored   |-> IF had THEN store[cache_key].data ELSE None,
         returned |-> g.data,
         present  |-> cache_key \in DOMAIN g.store]

(***************************************************************************)
(* The environment: what the web and the summarization service can answer.  *)
(***************************************************************************)

Companies == {"", "Acme"}

SeedUrls == {"", "ftp://x.com", "https://example.com"}

\* fetch_with_retry(url): the page text, or the exception of the last attempt.
PageTexts == {"", "Welcome to Example"}

FetchResults ==
    { [ok |-> TRUE, text |-> t] : t \in PageTexts }
      \cup { [ok |-> FALSE, text |-> "Timeout fetching page"] }

ExamplePage ==
    << "https://example.com/about-us", "https://example.com/careers",
       "https://example.com/login", "https://example.com/#top" >>

\* fetch_website_links(url): the page's same-host links, or an exception.
LinkFetchResults ==
    { [ok |-> TRUE, links |-> l] : l \in {<<>>, ExamplePage} }
      \cup { [ok |-> FALSE, links |-> <<>>] }

\* openai.chat.completions.create: a response with its usage and the time
\* the call took, or an exception.
LLMResults ==
    { [ok |-> TRUE, text |-> "Acme builds widgets.",
       prompt_tokens |-> 100, completion_tokens |-> 20, elapsed |-> 2],
      [ok |-> TRUE, text |-> "Acme sells low-code widgets.",
       prompt_tokens |-> 120, completion_tokens |-> 30, elapsed |-> 3],
      [ok |-> FALSE, text |-> "Connection error.",
       prompt_tokens |-> 0, completion_tokens |-> 0, elapsed |-> 0] }

(***************************************************************************)
(* Page fetching through the cache, prompt parts, report and markup.        *)
(***************************************************************************)

\* Python {}
EmptyDict == [x \in {} |-> 0]

\* Mutant of CachedFetch: the text of the exception is stored when the fetch
\* fails.
CachedFetch_SavesFailure(store, u, t, res) ==
    LET g == get_from_cache(store, ContentKey(u), t)
    IN  IF Truthy(g.data)
        THEN [ok |-> TRUE, content |-> g.data.text, store |-> g.store,
              fetched |-> FALSE]
        ELSE [ok |-> res.ok, content |-> res.text,
              store |-> save_to_cache(g.store, ContentKey(u),
                                      TextPayload(res.text), t),
              fetched |-> TRUE]

\* "Check cache first" / fetch_with_retry / save_to_cache, as written for the
\* landing page (235-242) and for each harvested page (200-207).  res is what
\* fetch_with_retry answers if it is called.
CachedFetch(store, u, t, res) ==
    LET g == get_from_cache(store, ContentKey(u), t)
    IN  IF Truthy(g.data)
        THEN [ok |-> TRUE, content |-> g.data.text, store |-> g.store,
              fetched |-> FALSE]
        ELSE IF res.ok
             THEN [ok |-> TRUE, content |-> res.text,
                   store |-> save_to_cache(g.store, ContentKey(u),
                                           TextPayload(res.text), t),
                   fetched |-> TRUE]
             ELSE [ok |-> FALSE, content |-> res.text, store |-> g.store,
                   fetched |-> TRUE]

\* The labels filter_relevant_links gives, f"{link_type} page".
LinkTypes ==
    { RELEVANT_LINK_PATTERNS[k].type \o " page" : k \in 1..Len(RELEVANT_LINK_PATTERNS) }

\* link_type.upper(), tabulated over the labels.
UpperTable == [t \in LinkTypes |-> Upper(t)]

\* f"\n\n### {link_type.upper()}:\n{content}"
ContentSection(link_type, content) ==
    "\n\n### " \o UpperTable[link_type] \o ":\n" \o content

\* Mutant of fetch_page_content: a failed fetch yields a section holding the
\* error text instead of the empty string.
fetch_page_content_ErrorSection(link_info, store, t, res) ==
    IF link_info.url = ""
    THEN [section |-> "", store |-> store, outcome |-> "skipped", fetched |-> FALSE]
    ELSE LET f == CachedFetch(store, link_info.url, t, res)
         IN  [section |-> ContentSection(link_info.type, f.content),
              store   |-> f.store,
              outcome |-> IF ~f.ok THEN "failed"
                          ELSE IF f.fetched THEN "fetched" ELSE "hit",
              fetched |-> f.fetched]

\* fetch_page_content: the section it returns ("" after an exception), the
\* store it leaves, and how the content was obtained.
fetch_page_content(link_info, store, t, res) ==
    IF link_info.url = ""
    THEN [section |-> "", store |-> store, outcome |-> "skipped", fetched |-> FALSE]
    ELSE LET f == CachedFetch(store, link_info.url, t, res)
         IN  [section |-> IF f.ok THEN ContentSection(link_info.type, f.content)
                          ELSE "",
              store   |-> f.store,
              outcome |-> IF ~f.ok THEN "failed"
                          ELSE IF f.fetched THEN "fetched" ELSE "hit",
              fetched |-> f.fetched]

\* The fixed preamble of the prompt.
Preamble(c) ==
    "You are looking at a company called: " \o c \o "\n## LANDING PAGE CONTENT:\n"

\* Mutant of MainPageError: the failure of the landing page leaves no trace
\* in the prompt.
MainPageError_Silent(e) == ""

\* f"\n[Error loading main page: {str(e)}]"
MainPageError(e) == "\n[Error loading main page: " \o e \o "]"

AdditionalHeader == "\n\n## ADDITIONAL RELEVANT PAGES:\n"

\* calculate_cost, in units of 10^-8 dollars (gpt-4o-mini: 0.00015 / 1000 per
\* input token, 0.0006 / 1000 per output token).
calculate_cost(input_tokens, output_tokens) ==
    input_tokens * 15 + output_tokens * 60

\* The metadata dict built from the response's usage.
Metadata(resp) ==
    [input_tokens  |-> resp.prompt_tokens,
     output_tokens |-> resp.completion_tokens,
     total_tokens  |-> resp.prompt_tokens + resp.completion_tokens,
     cost          |-> calculate_cost(resp.prompt_tokens, resp.completion_tokens),
     elapsed_time  |-> resp.elapsed,
     model         |-> "gpt-4o-mini"]

LLMErrorReport(e) == "Error generating report: " \o e

PleaseProvideHtml ==
    "<p style='color: red;'>Please provide both company name and URL.</p>"

SchemeHtml ==
    "<p style='color: red;'>URL must start with http:// or https://</p>"

\* Mutant of ValidationError: the scheme test is missing.
ValidationError_NoScheme(c, u) ==
    IF c = "" \/ u = "" THEN PleaseProvideHtml ELSE ""

\* The two early returns of generate_report_html: the error markup, or ""
\* when the request is let through.
ValidationError(c, u) ==
    IF c = "" \/ u = ""
    THEN PleaseProvideHtml
    ELSE IF ~(StartsWith(u, "http://") \/ StartsWith(u, "https://"))
         THEN SchemeHtml
         ELSE ""

\* markdown.markdown of one paragraph of text
markdown(text) == "<p>" \o text \o "</p>"

\* The cost footer, present when metadata carries a cost.
CostInfo(md) ==
    IF md # EmptyDict /\ "cost" \in DOMAIN md
    THEN "<strong>Generation Stats:</strong>" \o md.model
    ELSE ""

\* The styled container of generate_report_html (409-437): its texts, with
\* the layout and style markup left out.
StyledHtml(c, u, html_body, cost_info) ==
    "<h1>Company Intelligence Report</h1><p>" \o c \o "</p><a>" \o u \o "</a>"
      \o html_body \o "<strong>Note:</strong>" \o cost_info

\* The markup of the except branch of generate_report_html (442-454).
ErrorHtml(e) ==
    "<h3>Error Generating Report</h3><p>" \o e
      \o "</p><strong>Troubleshooting tips:</strong>"

\* generate_report_with_download's test "was it successful" (473).
LooksFailed(html) ==
    Contains(html, "Error Generating Report") \/ Contains(html, "Please provide both")

(***************************************************************************)
(* filter_relevant_links as a whole: cache lookup, link extraction, the     *)
(* filter loop and the cache store.  res is what fetch_website_links        *)
(* answers if it is called; an exception ends in {"links": []}.             *)
(***************************************************************************)

filter_relevant_links(store, u, t, res) ==
    LET g == get_from_cache(store, LinksKey(u), t)
    IN  IF Truthy(g.data)
        THEN [result |-> [links |-> g.data.links], store |-> g.store,
              fetched |-> FALSE, saved |-> FALSE]
        ELSE IF ~res.ok \/ res.links = <<>>
             THEN [result |-> [links |-> <<>>], store |-> g.store,
                   fetched |-> TRUE, saved |-> FALSE]
             ELSE [result |-> FilterResult(res.links),
                   store |-> save_to_cache(g.store, LinksKey(u),
                                           LinksPayload(FilterResult(res.links)), t),
                   fetched |-> TRUE, saved |-> TRUE]

(***************************************************************************)
(* Bounds.                                                                  *)
(***************************************************************************)

\* Longest link list handed to the filter in SpecFilter.
MaxLinks == 6

\* Requests served in one behaviour of Spec.
MaxRequests == 2

\* Clock advances in one behaviour of Spec.
MaxTicks == 2

\* Anchors on a page handed to fetch_website_links in SpecLinks.
MaxAnchors == 3

\* Largest max_retries handed to fetch_with_retry in SpecRetry.
MaxRetries == 3

\* Largest backoff base handed to fetch_with_retry in SpecRetry.
MaxBackoff == 3

\* Threads inside save_to_cache for the same key in SpecRace.
MaxWriters == 2

\* The clock advances by a second or by a second less than the TTL, so that
\* ages of TTL - 1, TTL and TTL + ... all occur.
TickSteps == {1, CACHE_TTL - 1}

(***************************************************************************)
(* State.                                                                   *)
(***************************************************************************)

VARIABLES
    \* link filter on its own (SpecFilter)
    all_links, flt_pc, flt_result,
    \* the cache directory and the clock (time.time())
    cache, now, ticks,
    \* the request being served by generate_report_with_download
    nreq, pc, company_name, url,
    \* get_company_intel_user_prompt
    user_prompt, tasks, asc_started, asc_finished, asc_queue,
    \* results
    markdown_report, metadata, html_report, pdf_file,
    \* per-request counts of calls made
    promptCalls, llmCalls, netCalls, cacheOps, pdfCalls,
    \* history
    entered, llmFailed, fromCache, lastGet, lastCall, lastGenerated, prior,
    \* how the landing page and the link list of the request were obtained,
    \* and the latest pass through "check cache first / fetch_with_retry"
    seedOutcome, linkOutcome, lastFetch,
    \* fetch_website_links on its own (SpecLinks)
    lk_url, anchors, links, unique_links, lk_pc,
    \* fetch_with_retry on its own (SpecRetry)
    max_retries, backoff, attempt, rt_pc, rt_calls, rt_sleeps, rt_errors, rt_result,
    \* the cache identity strings of two calls (SpecKeys)
    key_args, key_ids, key_pc,
    \* one cache file under concurrent save_to_cache and get_from_cache calls
    \* (SpecRace)
    rc_path, rc_disk, rc_writer, rc_reader,
    \* one pass of "check cache first, else fetch and save" on a cache file
    \* that can be damaged, vanish or refuse to be written (SpecFaults)
    ft_file, ft_pc, ft_cached, ft_fetched, ft_content, ft_caught, ft_raised

filterVars == <<all_links, flt_pc, flt_result>>

timeVars == <<now, ticks>>

reqVars == <<nreq, company_name, url>>

harvestVars == <<tasks, asc_started, asc_finished, asc_queue>>

outVars == <<markdown_report, metadata, html_report, pdf_file>>

countVars == <<promptCalls, llmCalls, netCalls, cacheOps, pdfCalls>>

stageVars == <<seedOutcome, linkOutcome, lastFetch>>

histVars ==
    <<entered, llmFailed, fromCache, lastGet, lastCall, lastGenerated, prior,
      stageVars>>

pipeVars ==
    <<cache, timeVars, reqVars, pc, user_prompt, harvestVars, outVars,
      countVars, histVars>>

linkVars == <<lk_url, anchors, links, unique_links, lk_pc>>

\* The variables of the operations modelled on their own.
retryVars ==
    <<max_retries, backoff, attempt, rt_pc, rt_calls, rt_sleeps, rt_errors, rt_result>>

keyVars == <<key_args, key_ids, key_pc>>

raceVars == <<rc_path, rc_disk, rc_writer, rc_reader>>

faultVars ==
    <<ft_file, ft_pc, ft_cached, ft_fetched, ft_content, ft_caught, ft_raised>>

sideVars == <<linkVars, retryVars, keyVars, raceVars, faultVars>>

vars == <<filterVars, pipeVars, sideVars>>

Range(f) == { f[x] : x \in DOMAIN f }

NoGet == [key |-> "", had |-> FALSE, age |-> 0, stored |-> None,
          returned |-> None, present |-> FALSE]

NoCall == [at |-> -1, report |-> "", metadata |-> EmptyDict]

NoLinks == [how |-> "none", links |-> <<>>]

NoFetch == [key |-> "", calls |-> 0, ok |-> FALSE, text |-> "", at |-> -1]

\* The per-request variables before a request and after its return.
RequestReset ==
    /\ user_prompt = <<>>
    /\ tasks = <<>>
    /\ asc_started = FALSE
    /\ asc_finished = {}
    /\ asc_queue = <<>>
    /\ markdown_report = ""
    /\ metadata = EmptyDict
    /\ html_report = ""
    /\ pdf_file = None
    /\ promptCalls = 0
    /\ llmCalls = 0
    /\ netCalls = 0
    /\ cacheOps = 0
    /\ pdfCalls = 0
    /\ entered = FALSE
    /\ llmFailed = FALSE
    /\ fromCache = FALSE
    /\ lastGet = NoGet
    /\ prior = [call |-> NoCall, generated |-> NoCall]
    /\ seedOutcome = "none"
    /\ linkOutcome = NoLinks
    /\ lastFetch = NoFetch

\* The same values, as the next state's.
RequestResetNext ==
    /\ user_prompt' = <<>>
    /\ tasks' = <<>>
    /\ asc_started' = FALSE
    /\ asc_finished' = {}
    /\ asc_queue' = <<>>
    /\ markdown_report' = ""
    /\ metadata' = EmptyDict
    /\ html_report' = ""
    /\ pdf_file' = None
    /\ promptCalls' = 0
    /\ llmCalls' = 0
    /\ netCalls' = 0
    /\ cacheOps' = 0
    /\ pdfCalls' = 0
    /\ entered' = FALSE
    /\ llmFailed' = FALSE
    /\ fromCache' = FALSE
    /\ lastGet' = NoGet
    /\ prior' = [call |-> NoCall, generated |-> NoCall]
    /\ seedOutcome' = "none"
    /\ linkOutcome' = NoLinks
    /\ lastFetch' = NoFetch

PipeInit ==
    /\ cache = EmptyDict
    /\ now = 0
    /\ ticks = 0
    /\ nreq = 0
    /\ pc = "idle"
    /\ company_name = ""
    /\ url = ""
    /\ lastCall = EmptyDict
    /\ lastGenerated = EmptyDict
    /\ RequestReset

FilterIdle ==
    /\ all_links = <<>>
    /\ flt_pc = "idle"
    /\ flt_result = [links |-> <<>>]

LinksIdle ==
    /\ lk_url = ""
    /\ anchors = <<>>
    /\ links = <<>>
    /\ unique_links = <<>>
    /\ lk_pc = "idle"

RetryIdle ==
    /\ max_retries = 3
    /\ backoff = 2
    /\ attempt = 0
    /\ rt_pc = "idle"
    /\ rt_calls = 0
    /\ rt_sleeps = <<>>
    /\ rt_errors = <<>>
    /\ rt_result = None

KeysIdle ==
    /\ key_args = <<>>
    /\ key_ids = <<>>
    /\ key_pc = "idle"

RaceIdle ==
    /\ rc_path = 0
    /\ rc_disk = <<>>
    /\ rc_writer = <<>>
    /\ rc_reader = [pc |-> "idle", fd |-> 0, loaded |-> None, result |-> None]

FaultIdle ==
    /\ ft_file = [kind |-> "absent"]
    /\ ft_pc = "idle"
    /\ ft_cached = None
    /\ ft_fetched = None
    /\ ft_content = ""
    /\ ft_caught = <<>>
    /\ ft_raised = ""

SideIdle == LinksIdle /\ RetryIdle /\ KeysIdle /\ RaceIdle /\ FaultIdle

(***************************************************************************)
(* The link filter on its own.                                              *)
(***************************************************************************)

FilterInit ==
    /\ all_links = <<>>
    /\ flt_pc = "extract"
    /\ flt_result = [links |-> <<>>]
    /\ PipeInit
    /\ SideIdle

\* fetch_website_links appends a link only when it was not seen before
\* (scraper.py, "Remove duplicates while preserving order").
ExtractLink(link) ==
    /\ flt_pc = "extract"
    /\ Len(all_links) < MaxLinks
    /\ link \notin Range(all_links)
    /\ all_links' = Append(all_links, link)
    /\ UNCHANGED <<flt_pc, flt_result, pipeVars, sideVars>>

\* The filter loop of filter_relevant_links on the extracted list.
RunFilter ==
    /\ flt_pc = "extract"
    /\ flt_result' = FilterResult(all_links)
    /\ flt_pc' = "done"
    /\ UNCHANGED <<all_links, pipeVars, sideVars>>

FilterNext ==
    \/ \E link \in LinkPool : ExtractLink(link)
    \/ RunFilter

SpecFilter == FilterInit /\ [][FilterNext]_vars

(***************************************************************************)
(* The request pipeline: generate_report_with_download ->                   *)
(* generate_report_html -> get_company_intel ->                             *)
(* get_company_intel_user_prompt, with the harvest on the worker pool.      *)
(***************************************************************************)

Pair == <<company_name, url>>

\* The history kept of a returned get_company_intel call.
CallRecord(report, md) == [at |-> now, report |-> report, metadata |-> md]

Recorded(hist, pair) == IF pair \in DOMAIN hist THEN hist[pair] ELSE NoCall

Record(hist, pair, rec) ==
    [q \in (DOMAIN hist) \cup {pair} |-> IF q = pair THEN rec ELSE hist[q]]

\* The record the model keeps of one pass through "check cache first, else
\* fetch_with_retry and save_to_cache": the number of fetch_with_retry calls
\* and what the call answered.
FetchRecord(key, f, t) ==
    [key |-> key, calls |-> IF f.fetched THEN 1 ELSE 0, ok |-> f.ok,
     text |-> f.content, at |-> t]

\* The presentation layer calls generate_report_with_download(c, u).
Request(c, u) ==
    /\ pc = "idle"
    /\ nreq < MaxRequests
    /\ nreq' = nreq + 1
    /\ company_name' = c
    /\ url' = u
    /\ prior' = [call |-> Recorded(lastCall, <<c, u>>),
                 generated |-> Recorded(lastGenerated, <<c, u>>)]
    /\ pc' = "validate"
    /\ UNCHANGED <<sideVars, filterVars, cache, timeVars, user_prompt, harvestVars, outVars,
                   countVars, entered, llmFailed, fromCache, lastGet, lastCall,
                   lastGenerated, stageVars>>

\* generate_report_html, the two validation tests (372-378).
Validate ==
    /\ pc = "validate"
    /\ LET err == ValidationError(company_name, url)
       IN  IF err # ""
           THEN /\ html_report' = err
                /\ pc' = "download"
           ELSE /\ html_report' = html_report
                /\ pc' = "report_cache"
    /\ UNCHANGED <<sideVars, filterVars, cache, timeVars, reqVars, user_prompt, harvestVars,
                   markdown_report, metadata, pdf_file, countVars, histVars>>

\* Mutant of ReportCacheLookup: the cached report is not used.
ReportCacheLookup_Ignored ==
    /\ pc = "report_cache"
    /\ entered' = TRUE
    /\ cacheOps' = cacheOps + 1
    /\ lastGet' = GetRecord(cache, ReportKey(company_name, url), now)
    /\ cache' = get_from_cache(cache, ReportKey(company_name, url), now).store
    /\ pc' = "main_page"
    /\ UNCHANGED <<sideVars, filterVars, timeVars, reqVars, user_prompt, harvestVars, outVars,
                   promptCalls, llmCalls, netCalls, pdfCalls, llmFailed,
                   fromCache, lastCall, lastGenerated, prior, stageVars>>

\* get_company_intel, "Check cache for complete report" (303-308).
ReportCacheLookup ==
    /\ pc = "report_cache"
    /\ entered' = TRUE
    /\ cacheOps' = cacheOps + 1
    /\ lastGet' = GetRecord(cache, ReportKey(company_name, url), now)
    /\ LET g == get_from_cache(cache, ReportKey(company_name, url), now)
       IN  /\ cache' = g.store
           /\ IF Truthy(g.data)
              THEN /\ markdown_report' = g.data.report
                   /\ metadata' = g.data.metadata
                   /\ fromCache' = TRUE
                   /\ lastCall' = Record(lastCall, Pair,
                                         CallRecord(g.data.report, g.data.metadata))
                   /\ pc' = "render"
              ELSE /\ UNCHANGED <<markdown_report, metadata, fromCache, lastCall>>
                   /\ pc' = "main_page"
    /\ UNCHANGED <<sideVars, filterVars, timeVars, reqVars, user_prompt, harvestVars,
                   html_report, pdf_file, promptCalls, llmCalls, netCalls, pdfCalls,
                   llmFailed, lastGenerated, prior, stageVars>>

\* get_company_intel_user_prompt, preamble and landing page (224-247).
MainPage(res) ==
    /\ pc = "main_page"
    /\ promptCalls' = promptCalls + 1
    /\ lastGet' = GetRecord(cache, ContentKey(url), now)
    /\ LET f == CachedFetch(cache, url, now, res)
       IN  /\ cache' = f.store
           /\ user_prompt' =
                << Preamble(company_name),
                   IF f.ok THEN f.content ELSE MainPageError(f.content) >>
           /\ netCalls' = netCalls + (IF f.fetched THEN 1 ELSE 0)
           /\ cacheOps' = cacheOps + (IF f.fetched /\ f.ok THEN 2 ELSE 1)
           /\ seedOutcome' = IF ~f.fetched THEN "hit"
                              ELSE IF f.ok THEN "fetched" ELSE "failed"
           /\ lastFetch' = FetchRecord(ContentKey(url), f, now)
    /\ pc' = "links"
    /\ UNCHANGED <<sideVars, filterVars, timeVars, reqVars, harvestVars, outVars, llmCalls,
                   pdfCalls, entered, llmFailed, fromCache, lastCall,
                   lastGenerated, prior, linkOutcome>>

Min2(a, b) == IF a < b THEN a ELSE b

\* Mutant of FindLinks: the test "len(relevant_links['links']) > 0" is missing,
\* so the pool is entered, and the header written, with nothing to fetch.
FindLinks_NoLengthTest(res) ==
    /\ pc = "links"
    /\ lastGet' = GetRecord(cache, LinksKey(url), now)
    /\ LET r == filter_relevant_links(cache, url, now, res)
           links_to_fetch == SubSeq(r.result.links, 1, Min2(5, Len(r.result.links)))
       IN  /\ cache' = r.store
           /\ netCalls' = netCalls + (IF r.fetched THEN 1 ELSE 0)
           /\ cacheOps' = cacheOps + (IF r.saved THEN 2 ELSE 1)
           /\ IF TRUE
              THEN /\ user_prompt' = Append(user_prompt, AdditionalHeader)
                   /\ tasks' = [i \in 1..Len(links_to_fetch) |->
                                  [link_info |-> links_to_fetch[i],
                                   state |-> "submitted",
                                   section |-> "",
                                   outcome |-> "none",
                                   rank |-> 0]]
                   /\ pc' = IF Len(links_to_fetch) > 0 THEN "harvest" ELSE "summarize"
              ELSE /\ UNCHANGED <<user_prompt, tasks>>
                   /\ pc' = "summarize"
           /\ linkOutcome' =
                [how |-> IF ~r.fetched THEN "hit"
                         ELSE IF ~res.ok THEN "failed"
                         ELSE IF res.links = <<>> THEN "empty" ELSE "filtered",
                 links |-> r.result.links]
    /\ UNCHANGED <<sideVars, filterVars, timeVars, reqVars, asc_started, asc_finished,
                   asc_queue, outVars, promptCalls, llmCalls, pdfCalls, entered,
                   llmFailed, fromCache, lastCall, lastGenerated, prior,
                   seedOutcome, lastFetch>>

\* get_company_intel_user_prompt, link discovery and the submission of one
\* fetch_page_content task per link (250-269).
FindLinks(res) ==
    /\ pc = "links"
    /\ lastGet' = GetRecord(cache, LinksKey(url), now)
    /\ LET r == filter_relevant_links(cache, url, now, res)
           links_to_fetch == SubSeq(r.result.links, 1, Min2(5, Len(r.result.links)))
       IN  /\ cache' = r.store
           /\ netCalls' = netCalls + (IF r.fetched THEN 1 ELSE 0)
           /\ cacheOps' = cacheOps + (IF r.saved THEN 2 ELSE 1)
           /\ IF Len(r.result.links) > 0
              THEN /\ user_prompt' = Append(user_prompt, AdditionalHeader)
                   /\ tasks' = [i \in 1..Len(links_to_fetch) |->
                                  [link_info |-> links_to_fetch[i],
                                   state |-> "submitted",
                                   section |-> "",
                                   outcome |-> "none",
                                   rank |-> 0]]
                   /\ pc' = "harvest"
              ELSE /\ UNCHANGED <<user_prompt, tasks>>
                   /\ pc' = "summarize"
           /\ linkOutcome' =
                [how |-> IF ~r.fetched THEN "hit"
                         ELSE IF ~res.ok THEN "failed"
                         ELSE IF res.links = <<>> THEN "empty" ELSE "filtered",
                 links |-> r.result.links]
    /\ UNCHANGED <<sideVars, filterVars, timeVars, reqVars, asc_started, asc_finished,
                   asc_queue, outVars, promptCalls, llmCalls, pdfCalls, entered,
                   llmFailed, fromCache, lastCall, lastGenerated, prior,
                   seedOutcome, lastFetch>>

Running == { i \in DOMAIN tasks : tasks[i].state = "running" }

\* A pool worker takes the next submitted task from the work queue.
StartTask(i) ==
    /\ pc = "harvest"
    /\ tasks[i].state = "submitted"
    /\ \A j \in DOMAIN tasks : j < i => tasks[j].state # "submitted"
    /\ Cardinality(Running) < MAX_WORKERS
    /\ tasks' = [tasks EXCEPT ![i].state = "running"]
    /\ UNCHANGED <<sideVars, filterVars, cache, timeVars, reqVars, pc, user_prompt,
                   asc_started, asc_finished, asc_queue, outVars, countVars,
                   histVars>>

\* The tasks whose future is finished.
Finished == { i \in DOMAIN tasks : tasks[i].state \in {"done", "collected"} }

\* The worker runs fetch_page_content to its return (184-216); rank is the
\* position of the task in the order of completion.
FinishTask(i, res) ==
    /\ pc = "harvest"
    /\ tasks[i].state = "running"
    /\ lastGet' = GetRecord(cache, ContentKey(tasks[i].link_info.url), now)
    /\ LET r == fetch_page_content(tasks[i].link_info, cache, now, res)
       IN  /\ cache' = r.store
           /\ tasks' = [tasks EXCEPT ![i].state = "done",
                                     ![i].section = r.section,
                                     ![i].outcome = r.outcome,
                                     ![i].rank = Cardinality(Finished) + 1]
           /\ netCalls' = netCalls + (IF r.fetched THEN 1 ELSE 0)
           /\ cacheOps' = cacheOps + (IF r.outcome = "fetched" THEN 2 ELSE 1)
    /\ lastFetch' = FetchRecord(ContentKey(tasks[i].link_info.url),
                                CachedFetch(cache, tasks[i].link_info.url, now, res), now)
    /\ asc_queue' = IF asc_started THEN Append(asc_queue, i) ELSE asc_queue
    /\ UNCHANGED <<sideVars, filterVars, timeVars, reqVars, pc, user_prompt, asc_started,
                   asc_finished, outVars, promptCalls, llmCalls, pdfCalls, entered,
                   llmFailed, fromCache, lastCall, lastGenerated, prior,
                   seedOutcome, linkOutcome>>

\* Mutant of AsCompleted: the futures that finished before the call are not
\* yielded.
AsCompleted_MissesFinished ==
    /\ pc = "harvest"
    /\ ~asc_started
    /\ asc_started' = TRUE
    /\ asc_finished' = {}
    /\ UNCHANGED <<sideVars, filterVars, cache, timeVars, reqVars, pc, user_prompt, tasks,
                   asc_queue, outVars, countVars, histVars>>

\* as_completed(future_to_link) is entered: the futures already finished are
\* yielded first, in no particular order; the others as they complete.
AsCompleted ==
    /\ pc = "harvest"
    /\ ~asc_started
    /\ asc_started' = TRUE
    /\ asc_finished' = { i \in DOMAIN tasks : tasks[i].state = "done" }
    /\ UNCHANGED <<sideVars, filterVars, cache, timeVars, reqVars, pc, user_prompt, tasks,
                   asc_queue, outVars, countVars, histVars>>

\* Mutant of Collect: the prompt is returned after the first future that
\* completes, without waiting for the others.
Collect_NoJoin(i) ==
    /\ pc = "harvest"
    /\ asc_started
    /\ IF asc_finished # {}
       THEN /\ i \in asc_finished
            /\ asc_finished' = asc_finished \ {i}
            /\ asc_queue' = asc_queue
       ELSE /\ asc_queue # <<>>
            /\ i = Head(asc_queue)
            /\ asc_queue' = Tail(asc_queue)
            /\ asc_finished' = asc_finished
    /\ user_prompt' = IF tasks[i].section # ""
                      THEN Append(user_prompt, tasks[i].section)
                      ELSE user_prompt
    /\ tasks' = [tasks EXCEPT ![i].state = "collected"]
    /\ pc' = "summarize"
    /\ UNCHANGED <<sideVars, filterVars, cache, timeVars, reqVars, asc_started, outVars,
                   countVars, histVars>>

\* One round of "for future in as_completed(...)": the section is appended
\* when it is not empty (272-275).  After the last future the pool is left
\* and the prompt is returned.
Collect(i) ==
    /\ pc = "harvest"
    /\ asc_started
    /\ IF asc_finished # {}
       THEN /\ i \in asc_finished
            /\ asc_finished' = asc_finished \ {i}
            /\ asc_queue' = asc_queue
       ELSE /\ asc_queue # <<>>
            /\ i = Head(asc_queue)
            /\ asc_queue' = Tail(asc_queue)
            /\ asc_finished' = asc_finished
    /\ user_prompt' = IF tasks[i].section # ""
                      THEN Append(user_prompt, tasks[i].section)
                      ELSE user_prompt
    /\ tasks' = [tasks EXCEPT ![i].state = "collected"]
    /\ pc' = IF \A j \in DOMAIN tasks : j # i => tasks[j].state = "collected"
             THEN "summarize" ELSE "harvest"
    /\ UNCHANGED <<sideVars, filterVars, cache, timeVars, reqVars, asc_started, outVars,
                   countVars, histVars>>

\* get_company_intel, the summarization call and what follows it (314-363):
\* on success the report and its metadata are cached and returned; on an
\* exception the error text is returned as the report, with {}.
Summarize(res) ==
    /\ pc = "summarize"
    /\ llmCalls' = llmCalls + 1
    /\ netCalls' = netCalls + 1
    /\ IF res.ok
       THEN /\ markdown_report' = res.text
            /\ metadata' = Metadata(res)
            /\ cache' = save_to_cache(cache, ReportKey(company_name, url),
                                      ReportPayload(res.text, Metadata(res)), now)
            /\ cacheOps' = cacheOps + 1
            /\ llmFailed' = FALSE
            /\ lastCall' = Record(lastCall, Pair, CallRecord(res.text, Metadata(res)))
            /\ lastGenerated' =
                 Record(lastGenerated, Pair, CallRecord(res.text, Metadata(res)))
       ELSE /\ markdown_report' = LLMErrorReport(res.text)
            /\ metadata' = EmptyDict
            /\ llmFailed' = TRUE
            /\ lastCall' = Record(lastCall, Pair,
                                  CallRecord(LLMErrorReport(res.text), EmptyDict))
            /\ UNCHANGED <<cache, cacheOps, lastGenerated>>
    /\ pc' = "render"
    /\ UNCHANGED <<sideVars, filterVars, timeVars, reqVars, user_prompt, harvestVars,
                   html_report, pdf_file, promptCalls, pdfCalls, entered,
                   fromCache, lastGet, prior, stageVars>>

\* generate_report_html, markdown to HTML and the styled container (393-439).
\* get_company_intel has returned: its prompt and futures are gone.
Render ==
    /\ pc = "render"
    /\ html_report' = StyledHtml(company_name, url, markdown(markdown_report),
                                 CostInfo(metadata))
    /\ user_prompt' = <<>>
    /\ tasks' = <<>>
    /\ asc_started' = FALSE
    /\ asc_finished' = {}
    /\ asc_queue' = <<>>
    /\ pc' = "download"
    /\ UNCHANGED <<sideVars, filterVars, cache, timeVars, reqVars, markdown_report, metadata,
                   pdf_file, countVars, histVars>>

\* The temporary file name of the PDF (model company names hold no blank).
PdfName(c) == c \o "_report_.pdf"

\* Mutant of Download: the PDF is produced by generating the report again
\* (the double generation the docstring of generate_report_with_download
\* describes).
Download_Regenerates(converted) ==
    /\ pc = "download"
    /\ IF LooksFailed(html_report)
       THEN /\ pdf_file' = None
            /\ UNCHANGED <<pdfCalls, promptCalls, llmCalls, netCalls>>
       ELSE /\ pdfCalls' = pdfCalls + 1
            /\ promptCalls' = promptCalls + 1
            /\ llmCalls' = llmCalls + 1
            /\ netCalls' = netCalls + 1
            /\ pdf_file' = IF converted
                           THEN [kind |-> "pdf", name |-> company_name \o "_report_.pdf",
                                 html |-> html_report]
                           ELSE None
    /\ pc' = "done"
    /\ UNCHANGED <<sideVars, filterVars, cache, timeVars, reqVars, user_prompt, harvestVars,
                   markdown_report, metadata, html_report, cacheOps, histVars>>

\* generate_report_with_download after generate_report_html has returned
\* (472-502): the failure test, then the PDF written from html_report; an
\* exception of the conversion leaves the markup without a file.
Download(converted) ==
    /\ pc = "download"
    /\ IF LooksFailed(html_report)
       THEN /\ pdf_file' = None
            /\ pdfCalls' = pdfCalls
       ELSE /\ pdfCalls' = pdfCalls + 1
            /\ pdf_file' = IF converted
                           THEN [kind |-> "pdf", name |-> PdfName(company_name),
                                 html |-> html_report]
                           ELSE None
    /\ pc' = "done"
    /\ UNCHANGED <<sideVars, filterVars, cache, timeVars, reqVars, user_prompt, harvestVars,
                   markdown_report, metadata, html_report, promptCalls, llmCalls,
                   netCalls, cacheOps, histVars>>

\* (html_report, pdf_file) is handed to the presentation layer.
Return ==
    /\ pc = "done"
    /\ pc' = "idle"
    /\ company_name' = ""
    /\ url' = ""
    /\ RequestResetNext
    /\ UNCHANGED <<sideVars, filterVars, cache, timeVars, nreq, lastCall, lastGenerated>>

\* time.time() advances between requests.
Tick(d) ==
    /\ pc = "idle"
    /\ ticks < MaxTicks
    /\ ticks' = ticks + 1
    /\ now' = now + d
    /\ UNCHANGED <<sideVars, filterVars, cache, reqVars, pc, user_prompt, harvestVars,
                   outVars, countVars, histVars>>

Init == FilterIdle /\ PipeInit /\ SideIdle

Next ==
    \/ \E c \in Companies, u \in SeedUrls : Request(c, u)
    \/ Validate
    \/ ReportCacheLookup
    \/ \E res \in FetchResults : MainPage(res)
    \/ \E res \in LinkFetchResults : FindLinks(res)
    \/ \E i \in DOMAIN tasks : StartTask(i)
    \/ \E i \in DOMAIN tasks, res \in FetchResults : FinishTask(i, res)
    \/ AsCompleted
    \/ \E i \in DOMAIN tasks : Collect(i)
    \/ \E res \in LLMResults : Summarize(res)
    \/ Render
    \/ \E converted \in BOOLEAN : Download(converted)
    \/ Return
    \/ \E d \in TickSteps : Tick(d)

Spec == Init /\ [][Next]_vars

(***************************************************************************)
(* The request pipeline on a landing page with five relevant links, for the *)
(* worker pool: the same actions as in Spec, in an environment where the    *)
(* summarization service answers and a page fetch succeeds or fails.        *)
(***************************************************************************)

RichPage ==
    << "https://example.com/about-us", "https://example.com/careers",
       "https://example.com/Products", "https://example.com/technology",
       "https://example.com/newsroom", "https://example.com/login" >>

HarvestFetchResults ==
    { [ok |-> TRUE, text |-> "Welcome to Example"],
      [ok |-> FALSE, text |-> "Timeout fetching page"] }

HarvestNext ==
    \/ Request("Acme", "https://example.com")
    \/ Validate
    \/ ReportCacheLookup
    \/ MainPage([ok |-> TRUE, text |-> "Welcome to Example"])
    \/ FindLinks([ok |-> TRUE, links |-> RichPage])
    \/ \E i \in DOMAIN tasks : StartTask(i)
    \/ \E i \in DOMAIN tasks, res \in HarvestFetchResults : FinishTask(i, res)
    \/ AsCompleted
    \/ \E i \in DOMAIN tasks : Collect(i)
    \/ Summarize([ok |-> TRUE, text |-> "Acme builds widgets.",
                  prompt_tokens |-> 100, completion_tokens |-> 20, elapsed |-> 2])
    \/ Render
    \/ Download(TRUE)
    \/ Return

SpecHarvest == Init /\ [][HarvestNext]_vars

(***************************************************************************)
(* fetch_website_links (scraper.py) on its own: the anchors of the page are *)
(* resolved against the page URL, kept when http(s) and of the page's       *)
(* netloc, and deduplicated in first-seen order.                            *)
(***************************************************************************)

\* Position of the first occurrence of sub in s at or after i; 0 when absent.
Find(s, sub, i) ==
    LET hits == { j \in i..(Len(s) - Len(sub) + 1) :
                    SubSeq(s, j, j + Len(sub) - 1) = sub }
    IN  IF hits = {} THEN 0 ELSE CHOOSE j \in hits : \A k \in hits : j <= k

\* Position of the first of the characters of seps in s at or after i; when
\* none occurs, Len(s) + 1.
FirstOf(s, seps, i) ==
    LET hits == { j \in i..Len(s) : SubSeq(s, j, j) \in seps }
    IN  IF hits = {} THEN Len(s) + 1 ELSE CHOOSE j \in hits : \A k \in hits : j <= k

\* urllib.parse.scheme_chars
scheme_chars ==
    { "a","b","c","d","e","f","g","h","i","j","k","l","m","n","o","p","q","r",
      "s","t","u","v","w","x","y","z","A","B","C","D","E","F","G","H","I","J",
      "K","L","M","N","O","P","Q","R","S","T","U","V","W","X","Y","Z",
      "0","1","2","3","4","5","6","7","8","9","+","-","." }

\* urllib.parse.uses_relative and uses_netloc, the schemes of the model.
uses_relative == {"", "http", "https", "ftp", "file"}

uses_netloc == {"", "http", "https", "ftp", "file"}

\* s[:n]
Take(s, n) == SubSeq(s, 1, IF Len(s) < n THEN Len(s) ELSE n)

\* The only element of a one-element set: Only({ F(x) : x \in {e} }) is
\* F(e) with e computed once.
Only(S) == CHOOSE x \in S : TRUE

\* urlparse, the path and what follows it (query and fragment with their
\* delimiters).
ParsePath(scheme, netloc, after) ==
    Only({ [scheme |-> scheme, netloc |-> netloc,
            path |-> SubSeq(after, 1, q - 1),
            suffix |-> SubSeq(after, q, Len(after))] :
           q \in {FirstOf(after, {"?", "#"}, 1)} })

\* urlparse, the netloc: what follows "//" up to the next "/", "?" or "#".
ParseNetloc(scheme, rest) ==
    IF Take(rest, 2) = "//"
    THEN Only({ ParsePath(scheme, SubSeq(rest, 3, e - 1), SubSeq(rest, e, Len(rest))) :
                e \in {FirstOf(rest, {"/", "?", "#"}, 3)} })
    ELSE ParsePath(scheme, "", rest)

\* urlparse, the scheme: the characters before the first ":" when they are
\* scheme characters and start with a letter.
ParseScheme(u, c) ==
    IF /\ c > 1
       /\ \A j \in 1..(c - 1) : SubSeq(u, j, j) \in scheme_chars
       /\ Take(u, 1) \notin {"0","1","2","3","4","5","6","7","8","9","+","-","."}
    THEN ParseNetloc(Lower(SubSeq(u, 1, c - 1)), SubSeq(u, c + 1, Len(u)))
    ELSE ParseNetloc("", u)

\* urlparse(u): scheme, netloc, path and what follows the path.
urlparse(u) == Only({ ParseScheme(u, c) : c \in {Find(u, ":", 1)} })

\* urlunparse of the four parts.
urlunparse(scheme, netloc, path, suffix) ==
    (IF scheme # "" THEN scheme \o ":" ELSE "")
      \o (IF \/ netloc # ""
             \/ (scheme # "" /\ scheme \in uses_netloc /\ Take(path, 2) # "//")
          THEN "//" \o netloc
                 \o (IF path # "" /\ Take(path, 1) # "/" THEN "/" ELSE "")
          ELSE "")
      \o path \o suffix

\* The path of the base up to its last "/" (base_parts without the last
\* segment, joined).
DirOf(bpath) ==
    LET slashes == { j \in 1..Len(bpath) : SubSeq(bpath, j, j) = "/" }
    IN  IF slashes = {} THEN ""
        ELSE SubSeq(bpath, 1, (CHOOSE j \in slashes : \A k \in slashes : k <= j) - 1)

\* urljoin of the parsed base and the parsed href.
JoinParsed(base, href, b, h, scheme) ==
    IF href = "" THEN base
    ELSE IF scheme # b.scheme \/ scheme \notin uses_relative THEN href
    ELSE IF scheme \in uses_netloc /\ h.netloc # ""
         THEN urlunparse(scheme, h.netloc, h.path, h.suffix)
    ELSE IF h.path = ""
         THEN urlunparse(scheme, b.netloc, b.path,
                         IF h.suffix = "" THEN b.suffix ELSE h.suffix)
    ELSE IF Take(h.path, 1) = "/"
         THEN urlunparse(scheme, b.netloc, h.path, h.suffix)
    ELSE urlunparse(scheme, b.netloc, DirOf(b.path) \o "/" \o h.path, h.suffix)

\* urljoin(base, href), for hrefs without "." and ".." segments; the href
\* is parsed with the scheme of the base as its default.
urljoin(base, href) ==
    Only({ JoinParsed(base, href, b, h, IF h.scheme = "" THEN b.scheme ELSE h.scheme) :
           b \in {urlparse(base)}, h \in {urlparse(href)} })

\* The pages fetch_website_links is called on.
SeedPages == {"https://example.com", "https://example.com/company/index.html"}

\* The href values of the anchors of a page.
Hrefs ==
    { "/about", "https://example.com/about", "careers", "https://other.com/x",
      "//cdn.example.com/lib", "mailto:hi@example.com",
      "https://example.com:443/team", "http://example.com/news", "#top", "" }

\* urljoin and urlparse of every anchor of every page, computed once.
JoinTable == [s \in SeedPages |-> [h \in Hrefs |-> urljoin(s, h)]]

ParseTable == [s \in SeedPages |-> [h \in Hrefs |-> urlparse(JoinTable[s][h])]]

BaseDomain == [s \in SeedPages |-> urlparse(s).netloc]

\* "Extract all links" (scraper.py 93-102): every anchor is resolved against
\* the page URL and kept when its scheme is http(s) and its netloc is the
\* page's.
RECURSIVE ScanAnchors(_, _, _, _)
ScanAnchors(u, as, i, acc) ==
    IF i > Len(as) THEN acc
    ELSE LET absolute_url == JoinTable[u][as[i]]
             parsed == ParseTable[u][as[i]]
         IN  ScanAnchors(u, as, i + 1,
                 IF parsed.scheme \in {"http", "https"} /\ parsed.netloc = BaseDomain[u]
                 THEN Append(acc, absolute_url)
                 ELSE acc)

\* "Remove duplicates while preserving order" (scraper.py 104-110).
RECURSIVE Unique(_, _, _, _)
Unique(ls, i, seen, unique) ==
    IF i > Len(ls) THEN unique
    ELSE IF ls[i] \notin seen
         THEN Unique(ls, i + 1, seen \cup {ls[i]}, Append(unique, ls[i]))
         ELSE Unique(ls, i + 1, seen, unique)

LinksRest == <<filterVars, pipeVars, retryVars, keyVars, raceVars, faultVars>>

LinksInit ==
    /\ lk_url \in SeedPages
    /\ anchors = <<>>
    /\ links = <<>>
    /\ unique_links = <<>>
    /\ lk_pc = "page"
    /\ FilterIdle
    /\ PipeInit
    /\ RetryIdle
    /\ KeysIdle
    /\ RaceIdle
    /\ FaultIdle

\* The page served at lk_url holds one more anchor.
AddAnchor(href) ==
    /\ lk_pc = "page"
    /\ Len(anchors) < MaxAnchors
    /\ anchors' = Append(anchors, href)
    /\ UNCHANGED <<lk_url, links, unique_links, lk_pc, LinksRest>>

\* fetch_website_links(lk_url) on the page, to its return.
FetchWebsiteLinks ==
    /\ lk_pc = "page"
    /\ links' = ScanAnchors(lk_url, anchors, 1, <<>>)
    /\ unique_links' = Unique(ScanAnchors(lk_url, anchors, 1, <<>>), 1, {}, <<>>)
    /\ lk_pc' = "done"
    /\ UNCHANGED <<lk_url, anchors, LinksRest>>

LinksNext ==
    \/ \E href \in Hrefs : AddAnchor(href)
    \/ FetchWebsiteLinks

SpecLinks == LinksInit /\ [][LinksNext]_vars

(***************************************************************************)
(* fetch_with_retry (scraper.py) on its own.                                *)
(***************************************************************************)

\* backoff ** attempt
RECURSIVE Pow(_, _)
Pow(b, n) == IF n = 0 THEN 1 ELSE b * Pow(b, n - 1)

\* What one call of fetch_website_contents does: the text of the page, or
\* one of its exceptions.
FetcherOutcomes ==
    { [ok |-> TRUE, text |-> "Welcome to Example"],
      [ok |-> FALSE, text |-> "Timeout fetching https://example.com"],
      [ok |-> FALSE, text |-> "Error fetching https://example.com: 503"] }

\* str(n) of a small number.
IntStr(n) == <<"0", "1", "2", "3", "4", "5", "6", "7", "8", "9">>[n + 1]

\* raise Exception(f"Failed to fetch {url} after {max_retries} attempts")
FailedToFetch ==
    [ok |-> FALSE,
     text |-> "Failed to fetch https://example.com after " \o IntStr(max_retries)
              \o " attempts"]

\* Mutant of LastAttempt: the test is off by one.
LastAttempt_OffByOne == attempt = max_retries

\* "if attempt == max_retries - 1" (scraper.py 138)
LastAttempt == attempt = max_retries - 1

\* Mutant of Reraise: the exception of the attempt is replaced by the one of
\* line 144.
Reraise_Replaced(e) == FailedToFetch

\* The bare "raise" of line 139 raises the exception being handled.
Reraise(e) == e

RetryRest == <<filterVars, pipeVars, linkVars, keyVars, raceVars, faultVars>>

RetryInit ==
    /\ max_retries \in 0..MaxRetries
    /\ backoff \in 0..MaxBackoff
    /\ attempt = 0
    /\ rt_pc = "loop"
    /\ rt_calls = 0
    /\ rt_sleeps = <<>>
    /\ rt_errors = <<>>
    /\ rt_result = None
    /\ FilterIdle
    /\ PipeInit
    /\ LinksIdle
    /\ KeysIdle
    /\ RaceIdle
    /\ FaultIdle

\* One round of "for attempt in range(max_retries)": the Fetcher is called;
\* its text is returned, or its exception is re-raised on the last attempt,
\* or the wait time is computed for the sleep.
Attempt(outcome) ==
    /\ rt_pc = "loop"
    /\ attempt < max_retries
    /\ rt_calls' = rt_calls + 1
    /\ IF outcome.ok
       THEN /\ rt_result' = outcome
            /\ rt_pc' = "returned"
            /\ UNCHANGED rt_errors
       ELSE /\ rt_errors' = Append(rt_errors, outcome)
            /\ IF LastAttempt
               THEN /\ rt_result' = Reraise(outcome)
                    /\ rt_pc' = "raised"
               ELSE /\ rt_result' = rt_result
                    /\ rt_pc' = "sleep"
    /\ UNCHANGED <<max_retries, backoff, attempt, rt_sleeps, RetryRest>>

\* time.sleep(wait_time) with wait_time = backoff ** attempt, then the next
\* round.
Sleep ==
    /\ rt_pc = "sleep"
    /\ rt_sleeps' = Append(rt_sleeps, Pow(backoff, attempt))
    /\ attempt' = attempt + 1
    /\ rt_pc' = "loop"
    /\ UNCHANGED <<max_retries, backoff, rt_calls, rt_errors, rt_result, RetryRest>>

\* The loop is left without a return or a raise: the raise of line 144.
LoopExhausted ==
    /\ rt_pc = "loop"
    /\ attempt >= max_retries
    /\ rt_result' = FailedToFetch
    /\ rt_pc' = "raised"
    /\ UNCHANGED <<max_retries, backoff, attempt, rt_calls, rt_sleeps, rt_errors,
                   RetryRest>>

RetryNext ==
    \/ \E outcome \in FetcherOutcomes : Attempt(outcome)
    \/ Sleep
    \/ LoopExhausted

SpecRetry == RetryInit /\ [][RetryNext]_vars

(***************************************************************************)
(* The cache identity strings and keys of two calls of get_company_intel,   *)
(* with the link-list and page-content entries made for their URLs.         *)
(***************************************************************************)

KeyCompanies == {"Acme", "Acme_https://a.io", "Bolt"}

KeyUrls == {"https://a.io", "https://b.io", "https://a.io_https://b.io"}

KeysRest == <<filterVars, pipeVars, linkVars, retryVars, raceVars, faultVars>>

KeysInit ==
    /\ key_args \in { <<[company_name |-> c1, url |-> u1],
                        [company_name |-> c2, url |-> u2]>> :
                      c1 \in KeyCompanies, u1 \in KeyUrls,
                      c2 \in KeyCompanies, u2 \in KeyUrls }
    /\ key_ids = <<>>
    /\ key_pc = "args"
    /\ FilterIdle
    /\ PipeInit
    /\ LinksIdle
    /\ RetryIdle
    /\ RaceIdle
    /\ FaultIdle

\* The identity strings and keys the two calls compute (124, 200, 235, 304).
ComputeKeys ==
    /\ key_pc = "args"
    /\ key_ids' = [n \in 1..2 |->
                     [links      |-> LinksIdentity(key_args[n].url),
                      content    |-> ContentIdentity(key_args[n].url),
                      report     |-> ReportIdentity(key_args[n].company_name,
                                                    key_args[n].url),
                      report_key |-> ReportKey(key_args[n].company_name,
                                               key_args[n].url)]]
    /\ key_pc' = "done"
    /\ UNCHANGED <<key_args, KeysRest>>

KeysNext == ComputeKeys

SpecKeys == KeysInit /\ [][KeysNext]_vars

(***************************************************************************)
(* One cache file under concurrent calls: MaxWriters threads in             *)
(* save_to_cache and one thread in get_from_cache, all for the same key.    *)
(* Nothing in the code orders them.  The file is a sequence of blocks, a    *)
(* block being what one write of the file object puts on disk:              *)
(* pickle.dump((time.time(), data), f) issues one write for a payload       *)
(* below 64 KiB, and three for a larger text (the frame with the timestamp  *)
(* and the length of the text, the text, the closing frame).  The large     *)
(* texts of the model have one length, so the blocks of two writers cover   *)
(* each other.  rc_disk holds the content of every file created, rc_path    *)
(* the file cache_file names (0: none).                                     *)
(***************************************************************************)

Writers == 1..MaxWriters

\* The writer of an entry that was in the cache directory before, and has
\* expired.
Earlier == 0

Block(w, part) == [by |-> w, part |-> part]

\* The bytes a seek past the end of the file leaves behind.
Hole == Block(Earlier, "hole")

\* The writes pickle.dump makes for the pair of writer w.
Image(w, size) ==
    IF size = "small"
    THEN << Block(w, "whole") >>
    ELSE << Block(w, "head"), Block(w, "body"), Block(w, "tail") >>

\* file.write(block) at offset off.
WriteAt(content, off, block) ==
    [i \in 1..(IF off > Len(content) THEN off ELSE Len(content)) |->
        IF i = off THEN block
        ELSE IF i <= Len(content) THEN content[i] ELSE Hole]

\* pickle.load(f): the (timestamp, data) pair the content decodes to, each
\* named by the writer it comes from, or an exception.  Bytes after the
\* closing frame are not read.
PickleLoad(content) ==
    IF content = <<>> THEN [ok |-> FALSE, timestamp |-> 0, data |-> 0]
    ELSE IF content[1].part = "whole"
         THEN [ok |-> TRUE, timestamp |-> content[1].by, data |-> content[1].by]
    ELSE IF /\ content[1].part = "head"
            /\ Len(content) >= 3
            /\ content[2].part = "body"
            /\ content[3].part = "tail"
         THEN [ok |-> TRUE, timestamp |-> content[1].by, data |-> content[2].by]
    ELSE [ok |-> FALSE, timestamp |-> 0, data |-> 0]

\* "time.time() - timestamp < CACHE_TTL": the writers of the model write
\* now, the earlier entry is older than the TTL.
StillValid(timestamp) == timestamp # Earlier

RaceRest == <<filterVars, pipeVars, linkVars, retryVars, keyVars, faultVars>>

RaceInit ==
    /\ rc_path \in {0, 1}
    /\ rc_disk = IF rc_path = 0 THEN <<>> ELSE << Image(Earlier, "small") >>
    /\ rc_writer \in [Writers -> { [pc |-> "start", fd |-> 0, off |-> 1, size |-> z] :
                                   z \in {"small", "large"} }]
    /\ rc_reader = [pc |-> "start", fd |-> 0, loaded |-> None, result |-> None]
    /\ FilterIdle
    /\ PipeInit
    /\ LinksIdle
    /\ RetryIdle
    /\ KeysIdle
    /\ FaultIdle

\* save_to_cache: open(cache_file, 'wb') creates the file, or empties it.
WriterOpen(w) ==
    /\ rc_writer[w].pc = "start"
    /\ IF rc_path = 0
       THEN /\ rc_disk' = Append(rc_disk, <<>>)
            /\ rc_path' = Len(rc_disk) + 1
       ELSE /\ rc_disk' = [rc_disk EXCEPT ![rc_path] = <<>>]
            /\ rc_path' = rc_path
    /\ rc_writer' = [rc_writer EXCEPT ![w].pc = "write", ![w].fd = rc_path', ![w].off = 1]
    /\ UNCHANGED <<rc_reader, RaceRest>>

\* save_to_cache: one write of pickle.dump; the file is closed after the
\* last one.
WriterWrite(w) ==
    /\ rc_writer[w].pc = "write"
    /\ LET image == Image(w, rc_writer[w].size)
           off == rc_writer[w].off
           fd == rc_writer[w].fd
       IN  /\ rc_disk' = [rc_disk EXCEPT ![fd] = WriteAt(rc_disk[fd], off, image[off])]
           /\ rc_writer' = [rc_writer EXCEPT
                               ![w].off = off + 1,
                               ![w].pc = IF off = Len(image) THEN "done" ELSE "write"]
    /\ UNCHANGED <<rc_path, rc_reader, RaceRest>>

\* get_from_cache: os.path.exists(cache_file)
ReaderExists ==
    /\ rc_reader.pc = "start"
    /\ rc_reader' = IF rc_path = 0
                    THEN [rc_reader EXCEPT !.pc = "done", !.result = None]
                    ELSE [rc_reader EXCEPT !.pc = "open"]
    /\ UNCHANGED <<rc_path, rc_disk, rc_writer, RaceRest>>

\* get_from_cache: open(cache_file, 'rb')
ReaderOpen ==
    /\ rc_reader.pc = "open"
    /\ rc_reader' = IF rc_path = 0
                    THEN [rc_reader EXCEPT !.pc = "done", !.result = None]
                    ELSE [rc_reader EXCEPT !.pc = "load", !.fd = rc_path]
    /\ UNCHANGED <<rc_path, rc_disk, rc_writer, RaceRest>>

\* get_from_cache: pickle.load and the validity test; an exception ends in
\* "return None".
ReaderLoad ==
    /\ rc_reader.pc = "load"
    /\ LET cached_data == PickleLoad(rc_disk[rc_reader.fd])
       IN  rc_reader' =
             IF ~cached_data.ok
             THEN [rc_reader EXCEPT !.pc = "done", !.result = None]
             ELSE IF StillValid(cached_data.timestamp)
                  THEN [rc_reader EXCEPT !.pc = "done", !.loaded = cached_data,
                                         !.result = [kind |-> "data",
                                                     by |-> cached_data.data]]
                  ELSE [rc_reader EXCEPT !.pc = "remove", !.loaded = cached_data]
    /\ UNCHANGED <<rc_path, rc_disk, rc_writer, RaceRest>>

\* get_from_cache: os.remove(cache_file) of the expired entry, then
\* "return None".
ReaderRemove ==
    /\ rc_reader.pc = "remove"
    /\ rc_path' = 0
    /\ rc_reader' = [rc_reader EXCEPT !.pc = "done", !.result = None]
    /\ UNCHANGED <<rc_disk, rc_writer, RaceRest>>

RaceNext ==
    \/ \E w \in Writers : WriterOpen(w)
    \/ \E w \in Writers : WriterWrite(w)
    \/ ReaderExists
    \/ ReaderOpen
    \/ ReaderLoad
    \/ ReaderRemove

SpecRace == RaceInit /\ [][RaceNext]_vars

(***************************************************************************)
(* One pass of "check cache first, else fetch_with_retry and save_to_cache" *)
(* (200-207, 235-242) on a cache file that can be damaged, can vanish       *)
(* between two steps of get_from_cache, or can refuse to be written.        *)
(* get_from_cache and save_to_cache run step by step; an exception raised   *)
(* inside their try blocks goes to their "except Exception" handlers        *)
(* (87-88, 101-102).                                                        *)
(***************************************************************************)

\* The exception classes of the model, each with its base class.
BaseClass ==
    [c \in {"FileNotFoundError", "IsADirectoryError", "OSError", "EOFError",
            "UnpicklingError", "PickleError", "ValueError", "TypeError",
            "Exception", "BaseException"} |->
       CASE c \in {"FileNotFoundError", "IsADirectoryError"} -> "OSError"
         [] c = "UnpicklingError" -> "PickleError"
         [] c \in {"OSError", "EOFError", "PickleError", "ValueError", "TypeError"}
              -> "Exception"
         [] c = "Exception" -> "BaseException"
         [] OTHER -> "object"]

\* issubclass(e, c)
RECURSIVE IsSubclass(_, _)
IsSubclass(e, c) ==
    IF e = c THEN TRUE
    ELSE IF e \notin DOMAIN BaseClass THEN FALSE
    ELSE IsSubclass(BaseClass[e], c)

\* Mutant of Caught: the handlers are "except OSError".
Caught_OSErrorOnly(e) == IsSubclass(e, "OSError")

\* "except Exception as e"
Caught(e) == IsSubclass(e, "Exception")

AbsentFile == [kind |-> "absent"]

EntryFile(timestamp, data) == [kind |-> "entry", timestamp |-> timestamp, data |-> data]

\* The files that are no pickled (timestamp, data) pair: an empty or cut
\* file, bytes that are no pickle, a pickled number, a pickled triple, a pair
\* whose timestamp is a string, and a directory of the file's name.
DamagedKinds == {"truncated", "garbage", "number", "triple", "text_timestamp", "directory"}

\* open(cache_file, 'rb'): the exception it raises, "" when it opens.
OpenForRead(file) ==
    CASE file.kind = "absent" -> "FileNotFoundError"
      [] file.kind = "directory" -> "IsADirectoryError"
      [] OTHER -> ""

\* pickle.load(f), "timestamp, data = cached_data" and
\* "time.time() - timestamp": the exception raised, "" for an entry.
LoadError(file) ==
    CASE file.kind = "truncated" -> "EOFError"
      [] file.kind = "garbage" -> "UnpicklingError"
      [] file.kind = "number" -> "TypeError"
      [] file.kind = "triple" -> "ValueError"
      [] file.kind = "text_timestamp" -> "TypeError"
      [] OTHER -> ""

\* What save_to_cache can meet: nothing, open(cache_file, 'wb') failing (the
\* directory is gone), or pickle.dump failing after the file was emptied
\* (the disk is full).
WriteFaults == {"", "open", "dump"}

FaultsRest == <<filterVars, pipeVars, linkVars, retryVars, keyVars, raceVars>>

FaultsInit ==
    /\ FilterIdle
    /\ PipeInit
    /\ LinksIdle
    /\ RetryIdle
    /\ KeysIdle
    /\ RaceIdle
    /\ ft_file \in {AbsentFile}
                     \cup { EntryFile(ts, TextPayload(text)) :
                              ts \in {0, 0 - CACHE_TTL}, text \in PageTexts }
                     \cup { [kind |-> k] : k \in DamagedKinds }
    /\ ft_pc = "exists"
    /\ ft_cached = None
    /\ ft_fetched = None
    /\ ft_content = ""
    /\ ft_caught = <<>>
    /\ ft_raised = ""

\* An exception e raised inside the try block of operation op: the handler
\* takes it and the operation goes on to next, or it reaches the caller.
Handle(op, e, next) ==
    IF Caught(e)
    THEN /\ ft_caught' = Append(ft_caught, [op |-> op, e |-> e])
         /\ ft_pc' = next
         /\ ft_raised' = ft_raised
    ELSE /\ ft_raised' = e
         /\ ft_pc' = "raised"
         /\ ft_caught' = ft_caught

\* get_from_cache: os.path.exists(cache_file); without a file it returns
\* None.
FtExists ==
    /\ ft_pc = "exists"
    /\ ft_pc' = IF ft_file.kind = "absent" THEN "got" ELSE "open"
    /\ UNCHANGED <<ft_file, ft_cached, ft_fetched, ft_content, ft_caught, ft_raised,
                   FaultsRest>>

\* Another thread's get_from_cache removes the file between two steps of
\* this one.
FtVanish ==
    /\ ft_pc \in {"open", "remove"}
    /\ ft_file.kind \notin {"absent", "directory"}
    /\ ft_file' = AbsentFile
    /\ UNCHANGED <<ft_pc, ft_cached, ft_fetched, ft_content, ft_caught, ft_raised,
                   FaultsRest>>

\* get_from_cache: open, pickle.load, the unpacking and the validity test
\* (76-85).  A valid entry is returned; an expired one goes on to os.remove;
\* an exception ends in "return None".
FtLoad ==
    /\ ft_pc = "open"
    /\ IF OpenForRead(ft_file) # ""
       THEN /\ Handle("get", OpenForRead(ft_file), "got")
            /\ ft_cached' = None
       ELSE IF LoadError(ft_file) # ""
       THEN /\ Handle("get", LoadError(ft_file), "got")
            /\ ft_cached' = None
       ELSE IF now - ft_file.timestamp < CACHE_TTL
       THEN /\ ft_cached' = ft_file.data
            /\ ft_pc' = "got"
            /\ UNCHANGED <<ft_caught, ft_raised>>
       ELSE /\ ft_cached' = None
            /\ ft_pc' = "remove"
            /\ UNCHANGED <<ft_caught, ft_raised>>
    /\ UNCHANGED <<ft_file, ft_fetched, ft_content, FaultsRest>>

\* get_from_cache: os.remove(cache_file) of the expired entry (86), then
\* "return None".
FtRemove ==
    /\ ft_pc = "remove"
    /\ IF ft_file.kind = "absent"
       THEN /\ Handle("get", "FileNotFoundError", "got")
            /\ ft_file' = ft_file
       ELSE /\ ft_file' = AbsentFile
            /\ ft_pc' = "got"
            /\ UNCHANGED <<ft_caught, ft_raised>>
    /\ UNCHANGED <<ft_cached, ft_fetched, ft_content, FaultsRest>>

\* The caller: "if cached_content:" (203, 238).
FtUse ==
    /\ ft_pc = "got"
    /\ IF Truthy(ft_cached)
       THEN /\ ft_content' = ft_cached.text
            /\ ft_pc' = "return"
       ELSE /\ ft_content' = ft_content
            /\ ft_pc' = "fetch"
    /\ UNCHANGED <<ft_file, ft_cached, ft_fetched, ft_caught, ft_raised, FaultsRest>>

\* The caller: content = fetch_with_retry(url) (206, 241); its exception is
\* the caller's own failure.
FtFetch(res) ==
    /\ ft_pc = "fetch"
    /\ ft_fetched' = res
    /\ IF res.ok
       THEN /\ ft_content' = res.text
            /\ ft_pc' = "save"
       ELSE /\ ft_content' = ft_content
            /\ ft_pc' = "fetch_failed"
    /\ UNCHANGED <<ft_file, ft_cached, ft_caught, ft_raised, FaultsRest>>

\* save_to_cache(cache_key, content) (97-102): open(cache_file, 'wb') and
\* pickle.dump; then the caller returns its content.
FtSave(fault) ==
    /\ ft_pc = "save"
    /\ IF ft_file.kind = "directory"
       THEN /\ Handle("save", "IsADirectoryError", "return")
            /\ ft_file' = ft_file
       ELSE IF fault = "open"
       THEN /\ Handle("save", "FileNotFoundError", "return")
            /\ ft_file' = ft_file
       ELSE IF fault = "dump"
       THEN /\ Handle("save", "OSError", "return")
            /\ ft_file' = [kind |-> "truncated"]
       ELSE /\ ft_file' = EntryFile(now, TextPayload(ft_content))
            /\ ft_pc' = "return"
            /\ UNCHANGED <<ft_caught, ft_raised>>
    /\ UNCHANGED <<ft_cached, ft_fetched, ft_content, FaultsRest>>

FaultsNext ==
    \/ FtExists
    \/ FtVanish
    \/ FtLoad
    \/ FtRemove
    \/ FtUse
    \/ \E res \in FetchResults : FtFetch(res)
    \/ \E fault \in WriteFaults : FtSave(fault)

SpecFaults == FaultsInit /\ [][FaultsNext]_vars

(***************************************************************************)
(* Termination: behaviours of Spec and the behaviours of SpecRetry,         *)
(* under fairness.  Every step of a request is taken once it can be: an     *)
(* HTTP call and the summarization call return or fail, a sleep ends, the   *)
(* pool workers and the collecting thread are scheduled: as long as some    *)
(* thread can take a step, one is taken.  No fairness is asked of the       *)
(* arrival of requests or of the clock.                                     *)
(***************************************************************************)

LiveInit == Init \/ RetryInit

\* A step of the request being served, by the thread of the request or by
\* a pool worker.
RequestStep ==
    \/ Validate
    \/ ReportCacheLookup
    \/ \E res \in FetchResults : MainPage(res)
    \/ \E res \in LinkFetchResults : FindLinks(res)
    \/ \E i \in DOMAIN tasks : StartTask(i)
    \/ \E i \in DOMAIN tasks, res \in FetchResults : FinishTask(i, res)
    \/ AsCompleted
    \/ \E i \in DOMAIN tasks : Collect(i)
    \/ \E res \in LLMResults : Summarize(res)
    \/ Render
    \/ \E converted \in BOOLEAN : Download(converted)

\* The requests arrive, are served and are handed back, and the clock
\* advances once, by the TTL, which expires the entries made before; or
\* fetch_with_retry runs.
LiveNext ==
    \/ rt_pc = "idle" /\ \E c \in Companies, u \in SeedUrls : Request(c, u)
    \/ rt_pc = "idle" /\ Validate
    \/ rt_pc = "idle" /\ ReportCacheLookup
    \/ rt_pc = "idle" /\ \E res \in FetchResults : MainPage(res)
    \/ rt_pc = "idle" /\ \E res \in LinkFetchResults : FindLinks(res)
    \/ rt_pc = "idle" /\ \E i \in DOMAIN tasks : StartTask(i)
    \/ rt_pc = "idle" /\ \E i \in DOMAIN tasks, res \in FetchResults : FinishTask(i, res)
    \/ rt_pc = "idle" /\ AsCompleted
    \/ rt_pc = "idle" /\ \E i \in DOMAIN tasks : Collect(i)
    \/ rt_pc = "idle" /\ \E res \in LLMResults : Summarize(res)
    \/ rt_pc = "idle" /\ Render
    \/ rt_pc = "idle" /\ \E converted \in BOOLEAN : Download(converted)
    \/ rt_pc = "idle" /\ Return
    \/ rt_pc = "idle" /\ ticks = 0 /\ Tick(CACHE_TTL)
    \/ rt_pc # "idle" /\ \E outcome \in FetcherOutcomes : Attempt(outcome)
    \/ rt_pc # "idle" /\ Sleep
    \/ rt_pc # "idle" /\ LoopExhausted

\* Some thread that can take a step takes one.
Fairness == WF_vars(RequestStep) /\ WF_vars(RetryNext)

SpecLive == LiveInit /\ [][LiveNext]_vars /\ Fairness

(***************************************************************************)
(* Properties of the request pipeline (checked under Spec).                 *)
(***************************************************************************)

\* The request passes the validation the specification asks for.
RequestValid ==
    /\ company_name # ""
    /\ url # ""
    /\ StartsWith(url, "http://") \/ StartsWith(url, "https://")

\* get_company_intel has returned, or a later stage of the request is reached.
Generated == pc \in {"render", "download", "done"}

\* C1: an accepted request not served from the report cache triggers the
\* page harvest exactly once and the summarization call exactly once; no
\* request triggers either twice, and the PDF is written from the markup
\* already produced.
C1_GeneratedExactlyOnce ==
    /\ promptCalls <= 1
    /\ llmCalls <= 1
    /\ (Generated /\ RequestValid /\ ~fromCache) => (promptCalls = 1 /\ llmCalls = 1)
    /\ (pc = "done" /\ pdf_file # None) => pdf_file.html = html_report

\* An accepted, uncached request has returned with its PDF.
C1_Witness ==
    /\ pc = "done"
    /\ RequestValid
    /\ ~fromCache
    /\ pdf_file # None
    /\ pdfCalls = 1
    /\ promptCalls = 1
    /\ llmCalls = 1

C3_CacheValidity ==
    lastGet # NoGet =>
      /\ (lastGet.returned # None) <=> (lastGet.had /\ lastGet.age < CACHE_TTL)
      /\ (lastGet.had /\ lastGet.age < CACHE_TTL)
           => (lastGet.returned = lastGet.stored /\ lastGet.present)
      /\ (lastGet.had /\ lastGet.age >= CACHE_TTL)
           => (lastGet.returned = None /\ ~lastGet.present)
      /\ ~lastGet.had => ~lastGet.present

\* An entry read at the age of exactly CACHE_TTL has been purged.
C3_Witness ==
    /\ lastGet.had
    /\ lastGet.age = CACHE_TTL
    /\ lastGet.returned = None
    /\ ~lastGet.present

\* C4: a request with an empty company name, an empty URL or a URL without
\* http:// or https:// is answered with the validation message, with no
\* network call and no cache read or write; every other request enters
\* get_company_intel.
C4_ValidationShortCircuits ==
    /\ ~RequestValid =>
         (netCalls = 0 /\ cacheOps = 0 /\ ~entered /\ promptCalls = 0 /\ llmCalls = 0)
    /\ (pc \in {"download", "done"} /\ ~RequestValid)
         => html_report \in {PleaseProvideHtml, SchemeHtml}
    /\ (pc \in {"download", "done"} /\ RequestValid) => entered

\* An ftp:// request has been answered while the cache holds entries.
C4_Witness ==
    /\ pc = "done"
    /\ company_name = "Acme"
    /\ url = "ftp://x.com"
    /\ html_report = SchemeHtml
    /\ pdf_file = None
    /\ cache # EmptyDict

\* The parts of the prompt that are the section of a link type.
SectionsOf(link_type) ==
    { k \in DOMAIN user_prompt :
        StartsWith(user_prompt[k], "\n\n### " \o Upper(link_type) \o ":") }

\* C5: whatever subset of the harvest fetches fails, the harvest completes,
\* the summarization call is issued, and the prompt holds one section for
\* each candidate whose fetch did not fail and none for the others.
C5_FailureIsolation ==
    (pc = "render" /\ promptCalls = 1) =>
      /\ llmCalls = 1
      /\ \A i \in DOMAIN tasks :
           /\ tasks[i].state = "collected"
           /\ Cardinality(SectionsOf(tasks[i].link_info.type))
                = IF tasks[i].outcome = "failed" THEN 0 ELSE 1

\* One harvest fetch failed and another succeeded.
C5_Witness ==
    /\ pc = "render"
    /\ llmCalls = 1
    /\ \E i, j \in DOMAIN tasks :
         /\ tasks[i].outcome = "failed"
         /\ tasks[j].outcome = "fetched"
         /\ SectionsOf(tasks[i].link_info.type) = {}
         /\ SectionsOf(tasks[j].link_info.type) # {}

\* C6: when the summarization call fails no report is produced: the markup
\* is the error with troubleshooting guidance, not a normal report, no
\* document is generated, and the call is not retried.
C6_SummarizationFailureTerminal ==
    (pc = "done" /\ llmFailed) =>
      /\ llmCalls = 1
      /\ pdfCalls = 0
      /\ pdf_file = None
      /\ Contains(html_report, "Troubleshooting tips")
      /\ ~Contains(html_report, "Company Intelligence Report")

(***************************************************************************)
(* Properties of the link filter (checked under SpecFilter).                *)
(***************************************************************************)

Min(S) == CHOOSE x \in S : \A y \in S : x <= y

\* Index of url in the extracted list.
IndexOf(u) == CHOOSE j \in 1..Len(all_links) : all_links[j] = u

\* The first category, in table order, whose pattern matches the link
\* ("none" when no pattern matches).
FirstMatchType(link) ==
    LET ks == { k \in 1..Len(RELEVANT_LINK_PATTERNS) : MatchTable[link][k] }
    IN  IF ks = {} THEN "none" ELSE RELEVANT_LINK_PATTERNS[Min(ks)].type

FirstMatchTable == [l \in LinkPool |-> FirstMatchType(l)]

\* The label the filter gives a category.
Label(type) == type \o " page"

\* C7: the output of filter_relevant_links has at most 5 entries and no two
\* entries carry the same category.
C7_CapAndOnePerCategory ==
    flt_pc = "done" =>
      /\ Len(flt_result.links) <= 5
      /\ \A i, j \in 1..Len(flt_result.links) :
            i # j => flt_result.links[i].type # flt_result.links[j].type

\* Six extracted links of six different categories, none deny-listed: the
\* cap has dropped the sixth.
C7_Witness ==
    /\ flt_pc = "done"
    /\ Len(all_links) = 6
    /\ \A j \in 1..6 : ~SkipTable[all_links[j]]
    /\ Cardinality({ FirstMatchTable[all_links[j]] : j \in 1..6 }) = 6
    /\ Len(flt_result.links) = 5

\* C8: every output entry is labelled with the first category, in table
\* order, whose pattern matches its link.
C8_FirstCategoryWins ==
    flt_pc = "done" =>
      \A i \in 1..Len(flt_result.links) :
        flt_result.links[i].type = Label(FirstMatchTable[flt_result.links[i].url])

\* C9: for each category of the output the kept link is the first
\* (non-deny-listed) link in extractor order of that category; a later link
\* of an already collected category contributes no entry; the entries are in
\* discovery order.
C9_FirstLinkPerCategory ==
    flt_pc = "done" =>
      LET out == flt_result.links
          outUrls == { out[i].url : i \in 1..Len(out) }
          OfType(t) == { j \in 1..Len(all_links) :
                           /\ ~SkipTable[all_links[j]]
                           /\ Label(FirstMatchTable[all_links[j]]) = t }
      IN  /\ \A i \in 1..Len(out) :
                /\ OfType(out[i].type) # {}
                /\ out[i].url = all_links[Min(OfType(out[i].type))]
          /\ \A j \in 1..Len(all_links) :
                (\E i \in 1..Len(out) :
                    /\ out[i].type = Label(FirstMatchTable[all_links[j]])
                    /\ IndexOf(out[i].url) < j)
                => all_links[j] \notin outUrls
          /\ \A i, k \in 1..Len(out) :
                i < k => IndexOf(out[i].url) < IndexOf(out[k].url)

\* The deny-list substrings the claim names, tested on the URL itself.
ClaimDenyList == {"login", "signup", "cart", "checkout", "#", "javascript:", "mailto:"}

ClaimDenied == [l \in LinkPool |-> \E d \in ClaimDenyList : Contains(l, d)]

\* C10: no output link contains a deny-list substring, and the example page
\* of seed https://example.com yields exactly [about, careers].
C10_DenyListExcluded ==
    flt_pc = "done" =>
      /\ \A i \in 1..Len(flt_result.links) : ~ClaimDenied[flt_result.links[i].url]
      /\ (all_links = ExamplePage =>
            flt_result.links =
              << [type |-> "about page", url |-> "https://example.com/about-us"],
                 [type |-> "careers page", url |-> "https://example.com/careers"] >>)

\* The example page has been filtered down to two candidates.
C10_Witness ==
    /\ flt_pc = "done"
    /\ all_links = ExamplePage
    /\ Len(flt_result.links) = 2

(***************************************************************************)
(* Properties of fetch_website_links (checked under SpecLinks).             *)
(***************************************************************************)

\* The host of a URL: its netloc without user information and port, in
\* lower case.
HostOf(u) ==
    LET n == urlparse(u).netloc
        at == Find(n, "@", 1)
        hostport == IF at = 0 THEN n ELSE SubSeq(n, at + 1, Len(n))
        colon == Find(hostport, ":", 1)
    IN  Lower(IF colon = 0 THEN hostport ELSE SubSeq(hostport, 1, colon - 1))

HostTable == [s \in SeedPages |-> [h \in Hrefs |-> HostOf(JoinTable[s][h])]]

SeedHost == [s \in SeedPages |-> HostOf(s)]

\* The resolved anchors of the page, in page order.
Resolved == [i \in 1..Len(anchors) |-> JoinTable[lk_url][anchors[i]]]

\* The resolved anchor URLs that are http(s) and of the page's host.
SameHostLinks ==
    { JoinTable[lk_url][h] : h \in { a \in Range(anchors) :
        /\ ParseTable[lk_url][a].scheme \in {"http", "https"}
        /\ HostTable[lk_url][a] = SeedHost[lk_url] } }

FirstSeen(l) == CHOOSE i \in 1..Len(anchors) :
                   /\ Resolved[i] = l
                   /\ \A j \in 1..(i - 1) : Resolved[j] # l

\* C11: the result of fetch_website_links holds exactly the resolved anchor
\* URLs with scheme http or https whose host is the page's host, each once,
\* in first-seen order.
C11_ExactlySameHostLinks ==
    lk_pc = "done" =>
        /\ Range(unique_links) = SameHostLinks
        /\ \A i, j \in 1..Len(unique_links) :
              i < j => /\ unique_links[i] # unique_links[j]
                       /\ FirstSeen(unique_links[i]) < FirstSeen(unique_links[j])

\* The part of C11 that the code keeps: no returned link has a foreign
\* host, no link is returned twice, and the order is first-seen order.
C11_NoForeignHost ==
    lk_pc = "done" =>
        /\ Range(unique_links) \subseteq SameHostLinks
        /\ \A i, j \in 1..Len(unique_links) :
              i < j => /\ unique_links[i] # unique_links[j]
                       /\ FirstSeen(unique_links[i]) < FirstSeen(unique_links[j])

(***************************************************************************)
(* Properties of fetch_with_retry (checked under SpecRetry).                *)
(***************************************************************************)

\* The sleeps made so far are backoff^0, backoff^1, ... in this order.
SleepsArePowers ==
    \A i \in 1..Len(rt_sleeps) : rt_sleeps[i] = Pow(backoff, i - 1)

\* C12: the Fetcher is invoked at most max_retries times; a returned result
\* is the first success, all attempts before it having failed; after the
\* failed attempt of index i that is not the last allowed one the function
\* sleeps backoff^i seconds before the next attempt, and no sleep follows a
\* success or the final attempt.
C12_BoundedRetry ==
    /\ rt_calls <= max_retries
    /\ Len(rt_sleeps) <= rt_calls
    /\ SleepsArePowers
    /\ rt_pc = "loop" => /\ Len(rt_sleeps) = rt_calls
                         /\ Len(rt_errors) = rt_calls
                         /\ attempt = rt_calls
    /\ rt_pc = "sleep" => /\ Len(rt_sleeps) = rt_calls - 1
                          /\ rt_calls < max_retries
    /\ rt_pc = "returned" => /\ rt_result.ok
                             /\ Len(rt_errors) = rt_calls - 1
                             /\ Len(rt_sleeps) = rt_calls - 1
    /\ (rt_pc = "raised" /\ rt_calls > 0) => /\ rt_calls = max_retries
                                             /\ Len(rt_sleeps) = rt_calls - 1

\* A call that failed twice, slept backoff^0 and backoff^1, and returned the
\* text of its third attempt.
C12_Witness ==
    /\ rt_pc = "returned"
    /\ rt_calls = 3
    /\ backoff = 2
    /\ rt_sleeps = <<1, 2>>

\* C13 as stated: whenever fetch_with_retry raises, the exception is the one
\* raised by the last Fetcher invocation.
C13_FinalFailurePropagated ==
    rt_pc = "raised" =>
        /\ rt_errors # <<>>
        /\ rt_result = rt_errors[Len(rt_errors)]

\* C13 amended: the same for max_retries >= 1, where the exception follows
\* max_retries failed invocations; with max_retries = 0 no invocation is made
\* and the exception is the "Failed to fetch" one of the function itself.
C13_FinalFailurePropagatedWhenAttempted ==
    /\ (rt_pc = "raised" /\ max_retries >= 1) =>
          /\ Len(rt_errors) = max_retries
          /\ rt_calls = max_retries
          /\ rt_result = rt_errors[Len(rt_errors)]
    /\ (rt_pc = "raised" /\ max_retries = 0) =>
          /\ rt_calls = 0
          /\ rt_result = FailedToFetch

\* Three attempts failed, the last with another exception than the first
\* two, and that last exception is the one raised.
C13_Witness ==
    /\ rt_pc = "raised"
    /\ Len(rt_errors) = 3
    /\ rt_errors[1] = rt_errors[2]
    /\ rt_errors[3] # rt_errors[2]
    /\ rt_result = rt_errors[3]

\* C19: the sleep durations of a call never decrease from one attempt to the
\* next.
C19_BackoffNonDecreasing ==
    \A i \in 1..(Len(rt_sleeps) - 1) : rt_sleeps[i] <= rt_sleeps[i + 1]

(***************************************************************************)
(* Degradation of the prompt builder (checked under Spec).                  *)
(***************************************************************************)

\* The exception text of fetch_with_retry in the model's environment.
SeedFailureNote == "\n[Error loading main page: Timeout fetching page]"

\* C14: after a failed fetch of the landing page the request is not aborted:
\* the prompt holds the error placeholder where the page text would be, link
\* discovery follows, and the summarization call is issued with that prompt.
C14_SeedPageDegradation ==
    seedOutcome = "failed" =>
        /\ pc \in {"links", "harvest", "summarize", "render", "download", "done"}
        /\ pc \in {"links", "harvest", "summarize", "render"} =>
              /\ Len(user_prompt) >= 2
              /\ user_prompt[2] = SeedFailureNote
        /\ pc \in {"harvest", "summarize", "render", "download", "done"} =>
              linkOutcome.how # "none"
        /\ pc = "harvest" => Len(tasks) = Len(linkOutcome.links)
        /\ pc \in {"render", "download", "done"} => llmCalls = 1

\* The landing page failed, two pages were harvested after it and the
\* summarization call was made on the prompt holding the placeholder.
C14_Witness ==
    /\ seedOutcome = "failed"
    /\ pc = "render"
    /\ llmCalls = 1
    /\ Len(user_prompt) = 5
    /\ user_prompt[2] = SeedFailureNote

\* C15: when link extraction finds no link on the landing page or fails, the
\* candidate list is empty, no harvest task is dispatched, and the
\* summarization call is issued on the preamble and the landing page content
\* alone; its answer is the report.
C15_NoLinksFallback ==
    linkOutcome.how \in {"empty", "failed"} =>
        /\ linkOutcome.links = <<>>
        /\ tasks = <<>>
        /\ pc \in {"summarize", "render", "download", "done"}
        /\ pc \in {"summarize", "render"} =>
              /\ Len(user_prompt) = 2
              /\ user_prompt[1] = Preamble(company_name)
        /\ pc \in {"render", "download", "done"} =>
              /\ llmCalls = 1
              /\ ~llmFailed => /\ markdown_report \in {"Acme builds widgets.",
                                                       "Acme sells low-code widgets."}
                               /\ Recorded(lastGenerated, Pair).report = markdown_report

\* Link extraction raised, and the report was produced from the landing
\* page alone.
C15_Witness ==
    /\ linkOutcome.how = "failed"
    /\ pc = "done"
    /\ llmCalls = 1
    /\ ~llmFailed
    /\ seedOutcome = "fetched"
    /\ markdown_report = "Acme builds widgets."
    /\ Contains(html_report, "Acme builds widgets.")

(***************************************************************************)
(* The cache and fetch_with_retry (checked under Spec).                     *)
(***************************************************************************)

\* The latest get_from_cache call is the lookup of the latest pass through
\* "check cache first, else fetch_with_retry and save_to_cache".
FetchPassRecorded == lastFetch.key # "" /\ lastGet.key = lastFetch.key

\* The lookup of that pass found an entry that had not expired.
UnexpiredEntry == lastGet.had /\ lastGet.age < CACHE_TTL

\* What the pass leaves in the store after a successful fetch.
FetchedIsStored ==
    /\ lastFetch.key \in DOMAIN cache
    /\ cache[lastFetch.key] =
         [timestamp |-> lastFetch.at, data |-> TextPayload(lastFetch.text)]

\* C18: a pass through the cached fetch path calls fetch_with_retry zero
\* times when an unexpired entry is stored for the page, whatever its
\* payload, and once otherwise, a successful result then being stored.
C18_CacheGovernsFetching ==
    FetchPassRecorded =>
        /\ UnexpiredEntry => lastFetch.calls = 0
        /\ ~UnexpiredEntry => /\ lastFetch.calls = 1
                              /\ lastFetch.ok => FetchedIsStored

\* The part of C18 that the code keeps: the same, for entries whose stored
\* page text is not empty.
C18_NonEmptyEntryGovernsFetching ==
    FetchPassRecorded =>
        /\ (UnexpiredEntry /\ lastGet.stored # TextPayload("")) => lastFetch.calls = 0
        /\ ~UnexpiredEntry => /\ lastFetch.calls = 1
                              /\ lastFetch.ok => FetchedIsStored

(***************************************************************************)
(* The worker pool of the harvest (checked under SpecHarvest).              *)
(***************************************************************************)

\* C17: one fetch task is dispatched per filtered candidate, in the order of
\* the candidates; at most MAX_WORKERS tasks run at a time; and when the
\* prompt has been returned for the summarization call every task has
\* completed and been collected.
C17_ForkJoin ==
    /\ pc = "harvest" =>
          /\ Len(tasks) = Len(linkOutcome.links)
          /\ \A i \in DOMAIN tasks : tasks[i].link_info = linkOutcome.links[i]
    /\ Cardinality(Running) <= MAX_WORKERS
    /\ pc \in {"summarize", "render"} =>
          \A i \in DOMAIN tasks : tasks[i].state = "collected"
    /\ llmCalls > 0 =>
          \A i \in DOMAIN tasks : tasks[i].state \notin {"submitted", "running"}

\* Five candidates, and the five tasks running at the same time.
C17_Witness ==
    /\ pc = "harvest"
    /\ Len(linkOutcome.links) = 5
    /\ Cardinality(Running) = MAX_WORKERS

(***************************************************************************)
(* Properties of the cache identity strings (checked under SpecKeys).       *)
(***************************************************************************)

\* The identity strings of the three kinds of entry differ from one another,
\* within a call and across the two calls.
NamespacesDistinct ==
    \A m, n \in 1..2 :
        /\ key_ids[m].links # key_ids[n].content
        /\ key_ids[m].links # key_ids[n].report
        /\ key_ids[m].content # key_ids[n].report

\* C20: the identity strings of a link-list entry, a page-content entry and
\* a report entry are pairwise different, and two different (company name,
\* URL) pairs have different report identity strings and so different
\* report cache entries.
C20_IdentitiesDistinguish ==
    key_pc = "done" =>
        /\ NamespacesDistinct
        /\ key_args[1] # key_args[2] =>
              /\ key_ids[1].report # key_ids[2].report
              /\ key_ids[1].report_key # key_ids[2].report_key

\* The part of C20 that the code keeps: the three namespaces never meet.
C20_NamespacesDistinct == key_pc = "done" => NamespacesDistinct

(***************************************************************************)
(* Properties of concurrent cache calls (checked under SpecRace).           *)
(***************************************************************************)

AllWritten == \A w \in Writers : rc_writer[w].pc = "done"

\* The file of the key decodes to the timestamp and the payload of one and
\* the same writer.
HoldsOneWritersPair ==
    /\ rc_path # 0
    /\ LET entry == PickleLoad(rc_disk[rc_path])
       IN  /\ entry.ok
           /\ entry.timestamp \in Writers
           /\ entry.data = entry.timestamp

\* C16: once all the concurrent save_to_cache calls on a key have finished,
\* the store holds for the key the complete (timestamp, payload) pair of one
\* of the writers, never a mixture of two writers' data; and a concurrent
\* get_from_cache returns None or the payload of one of the writers.
C16_WritersRaceHarmlessly ==
    /\ AllWritten => HoldsOneWritersPair
    /\ rc_reader.pc = "done" =>
          \/ rc_reader.result = None
          \/ /\ rc_reader.result.kind = "data"
             /\ rc_reader.result.by \in Writers

\* The part of C16 that the model finds kept: get_from_cache returns None or
\* a payload that one writer wrote as a whole.
C16_ReaderSeesAbsentOrPayload ==
    rc_reader.pc = "done" =>
        \/ rc_reader.result = None
        \/ /\ rc_reader.result.kind = "data"
           /\ rc_reader.result.by \in Writers

(***************************************************************************)
(* Structure of the prompt (checked under Spec).                            *)
(***************************************************************************)

\* get_company_intel_user_prompt has returned its prompt.
PromptReturned == pc \in {"summarize", "render"} /\ promptCalls = 1

\* The tasks whose page was harvested: fetched, or served from the cache.
Harvested == { i \in DOMAIN tasks : tasks[i].outcome \in {"fetched", "hit"} }

\* The place of a harvested task among the harvested tasks, by completion.
PlaceOf(i) == Cardinality({ j \in Harvested : tasks[j].rank <= tasks[i].rank })

\* The prompt starts with the preamble and the landing page text, or its
\* placeholder; the header of the additional pages follows when there are
\* candidates.
PromptHead ==
    /\ Len(user_prompt) >= 2
    /\ user_prompt[1] = Preamble(company_name)
    /\ IF seedOutcome = "failed"
       THEN user_prompt[2] = SeedFailureNote
       ELSE /\ ContentKey(url) \in DOMAIN cache
            /\ user_prompt[2] = cache[ContentKey(url)].data.text
    /\ tasks # <<>> => /\ Len(user_prompt) >= 3
                       /\ user_prompt[3] = AdditionalHeader

\* The number of parts before the first section.
SectionBase == IF tasks = <<>> THEN 2 ELSE 3

\* C21: the returned prompt is the preamble, the landing page text or its
\* placeholder, then one labelled section per harvested page, in the order
\* in which the harvest tasks completed; every harvested candidate has
\* exactly one section, none twice and none ahead of the landing page
\* content.
C21_PayloadStructure ==
    PromptReturned =>
        /\ PromptHead
        /\ Len(user_prompt) = SectionBase + Cardinality(Harvested)
        /\ \A i \in Harvested :
              user_prompt[SectionBase + PlaceOf(i)] = tasks[i].section

\* The part of C21 that the code keeps: the same without the order of the
\* sections.
C21_OneSectionPerHarvestedPage ==
    PromptReturned =>
        /\ PromptHead
        /\ Len(user_prompt) = SectionBase + Cardinality(Harvested)
        /\ \A i \in Harvested :
              /\ Cardinality(SectionsOf(tasks[i].link_info.type)) = 1
              /\ \A k \in SectionsOf(tasks[i].link_info.type) :
                    /\ k > SectionBase
                    /\ user_prompt[k] = tasks[i].section

(***************************************************************************)
(* Termination (checked under SpecLive).                                    *)
(***************************************************************************)

\* C22: every request that generate_report_with_download has taken is
\* answered; a harvest that has started ends, with all of its at most 5
\* tasks finished, in the summarization call; and a call of fetch_with_retry
\* returns or raises after at most max_retries attempts.
C22_Termination ==
    /\ (pc # "idle") ~> (pc = "done")
    /\ (pc = "harvest") ~> (pc = "summarize" /\ Finished = DOMAIN tasks)
    /\ (rt_pc = "loop") ~> (rt_pc \in {"returned", "raised"})
    /\ [](rt_calls <= max_retries)
    /\ [](Len(tasks) <= 5)

\* A request has been answered after the landing page failed, two pages
\* were harvested and the summarization call failed.
C22_Witness ==
    /\ pc = "done"
    /\ seedOutcome = "failed"
    /\ netCalls = 5
    /\ llmFailed

(***************************************************************************)
(* What is written to the cache (checked under Spec).                       *)
(***************************************************************************)

ContentKeys == { k \in DOMAIN cache : StartsWith(k, "md5(content_") }

ReportKeys == { k \in DOMAIN cache : StartsWith(k, "md5(report_") }

\* What a successful summarization call answers.
ReportTexts == { r.text : r \in { x \in LLMResults : x.ok } }

\* Every page-content entry holds a text that fetch_with_retry returns, and
\* every report entry a report that the summarization call answers.
OnlyResultsStored ==
    /\ \A k \in ContentKeys : /\ cache[k].data.kind = "text"
                              /\ cache[k].data.text \in PageTexts
    /\ \A k \in ReportKeys : /\ cache[k].data.kind = "report"
                             /\ cache[k].data.report \in ReportTexts

\* The step writes the entry of key k: it makes it, or replaces it.
Written(k) ==
    /\ k \in DOMAIN cache'
    /\ k \notin DOMAIN cache \/ cache'[k] # cache[k]

\* The step is a pass of the cached fetch path for key k in which
\* fetch_with_retry was called and returned the text now stored.
StoredByFetch(k) ==
    /\ lastFetch'.key = k
    /\ lastFetch'.calls = 1
    /\ lastFetch'.ok
    /\ netCalls' = netCalls + 1
    /\ cache'[k] = [timestamp |-> now, data |-> TextPayload(lastFetch'.text)]

\* The step is a summarization call of the request that succeeded and
\* whose report and metadata are now stored.
StoredBySummarization(k) ==
    /\ k = ReportKey(company_name, url)
    /\ llmCalls' = llmCalls + 1
    /\ ~llmFailed'
    /\ markdown_report' \in ReportTexts
    /\ cache'[k] = [timestamp |-> now,
                    data |-> ReportPayload(markdown_report', metadata')]

\* A step writes a page-content entry only by a fetch that returned, and a
\* report entry only by a summarization call that succeeded; an entry that
\* a step takes away had reached the TTL.
WritesAreResults ==
    /\ \A k \in DOMAIN cache' :
          Written(k) =>
             /\ StartsWith(k, "md5(content_") => StoredByFetch(k)
             /\ StartsWith(k, "md5(report_") => StoredBySummarization(k)
    /\ \A k \in DOMAIN cache :
          k \notin DOMAIN cache' => now - cache[k].timestamp >= CACHE_TTL

\* C23: in every reachable state a page-content entry exists only for a
\* page whose fetch_with_retry call returned text and a report entry only
\* for a request whose summarization call succeeded; a failed fetch or a
\* failed summarization call writes nothing under its key and leaves an
\* existing entry as it was.
C23_OnlySuccessesCached == []OnlyResultsStored /\ [][WritesAreResults]_vars

\* A fetch of a page failed while the cache held an entry for the page (an
\* empty text, stored by an earlier request), and the entry is still there.
C23_Witness ==
    /\ lastFetch.calls = 1
    /\ ~lastFetch.ok
    /\ lastGet.key = lastFetch.key
    /\ lastGet.had
    /\ lastGet.age < CACHE_TTL
    /\ lastFetch.key \in DOMAIN cache
    /\ cache[lastFetch.key].data = TextPayload("")
    /\ cache[lastFetch.key].timestamp = lastFetch.at - lastGet.age

(***************************************************************************)
(* Rejected requests and the PDF (checked under Spec).                      *)
(***************************************************************************)

\* C24: when generate_report_html rejects the request (empty company name,
\* empty URL, or URL without http:// or https://),
\* generate_report_with_download returns the error markup with no file and
\* does not call the HTML-to-PDF conversion.
C24_NoDocumentForRejected ==
    (pc = "done" /\ ~RequestValid) =>
        /\ html_report \in {PleaseProvideHtml, SchemeHtml}
        /\ pdfCalls = 0
        /\ pdf_file = None

\* The part of C24 that the code keeps: the same for a request with an
\* empty company name or an empty URL.
C24_NoDocumentForMissingField ==
    (pc = "done" /\ (company_name = "" \/ url = "")) =>
        /\ html_report = PleaseProvideHtml
        /\ pdfCalls = 0
        /\ pdf_file = None

(***************************************************************************)
(* Lazy expiry under concurrent calls (checked under SpecRace).             *)
(***************************************************************************)

\* The file the key names holds an entry written by one of the concurrent
\* save_to_cache calls: it decodes, and its timestamp is not the expired one.
FreshEntryPresent ==
    /\ rc_path # 0
    /\ PickleLoad(rc_disk[rc_path]).ok
    /\ StillValid(PickleLoad(rc_disk[rc_path]).timestamp)

\* A step that removes the file of the key removes an expired entry.
RemovesOnlyExpired ==
    (rc_path # 0 /\ rc_path' = 0) =>
        /\ PickleLoad(rc_disk[rc_path]).ok
        /\ ~StillValid(PickleLoad(rc_disk[rc_path]).timestamp)

\* C25: under every interleaving of get_from_cache with concurrent
\* save_to_cache calls on the same key, get_from_cache deletes only an entry
\* whose age has reached CACHE_TTL, and once the save_to_cache calls have
\* completed the entry they wrote is present and valid.
C25_ExpiryKeepsFreshEntry ==
    /\ [][RemovesOnlyExpired]_vars
    /\ [](AllWritten => FreshEntryPresent)

(***************************************************************************)
(* Cache failures (checked under SpecFaults).                               *)
(***************************************************************************)

\* The exceptions the handlers of get_from_cache took.
ReadErrors == { i \in 1..Len(ft_caught) : ft_caught[i].op = "get" }

WriteErrors == { i \in 1..Len(ft_caught) : ft_caught[i].op = "save" }

\* C26: no exception of get_from_cache or save_to_cache reaches the caller;
\* a read error (damaged file, file removed by another thread) makes
\* get_from_cache return None; and the caller, with or without a read or
\* write error, returns the cached text of a valid entry or else the text
\* it fetched.
C26_CacheFailuresAbsorbed ==
    /\ ft_raised = ""
    /\ ft_pc # "raised"
    /\ (ReadErrors # {} /\ ft_pc # "open") => ft_cached = None
    /\ (ft_pc \in {"save", "return", "fetch_failed"} /\ ~Truthy(ft_cached))
          => ft_fetched # None
    /\ ft_pc = "return" =>
          IF Truthy(ft_cached)
          THEN ft_content = ft_cached.text /\ ft_fetched = None
          ELSE ft_fetched.ok /\ ft_content = ft_fetched.text
    /\ ft_pc = "fetch_failed" => ~ft_fetched.ok

\* A pass that met a read error and a write error and returned the fetched
\* text.
C26_Witness ==
    /\ ft_pc = "return"
    /\ ReadErrors # {}
    /\ WriteErrors # {}
    /\ ft_content = "Welcome to Example"
    /\ ft_file.kind = "truncated"

=============================================================================
